---------------------------- MODULE Spec2Model ----------------------------
(***************************************************************************)
(* Model of the Stacks indexer's standardization path                      *)
(* (vendor/orchestra-event-observer/src/indexer/stacks/mod.rs).            *)
(*                                                                         *)
(* Conventions                                                             *)
(*  - Option<T> is a sequence of length at most one: None is <<>> and      *)
(*    Some(x) is <<x>>.                                                    *)
(*  - A Rust String whose characters the code inspects (prefixes, hex      *)
(*    digits, decimal digits, the "::" separator) is a sequence of         *)
(*    one-character strings.  Identifiers the code only copies and         *)
(*    compares (txids, addresses) are plain strings; hashes, which the     *)
(*    code orders, are integers.                                           *)
(*  - Vec indices are 1-based here and 0-based in the source.              *)
(*  - TLC's integers are 32 bit wide, so the unsigned 64 and 32 bit types  *)
(*    are scaled down to 0..U64Max and 0..U32Max with U32Max < U64Max.     *)
(***************************************************************************)
EXTENDS Integers, Sequences, FiniteSets, TLC

VARIABLES
    pc,                 \* position of the call being modelled
    txid,               \* get_standardized_stacks_operations: txid argument
    events_in,          \* the events vector as it was when the call started
    events,             \* the events vector (mutated in place by the call)
    asset_class_cache,  \* ctx.asset_class_map
    operations,         \* returned Vec<Operation>
    receipt,            \* returned StacksTransactionReceipt
    raw_value,          \* get_value_description: raw_value argument
    value_description,  \* get_value_description: returned String
    block,              \* standardize_stacks_block: the deserialized NewBlock
    pox_info,           \* ctx.pox_info
    block_data,         \* standardize_stacks_block: returned StacksBlockData
    microblock_trail,   \* standardize_stacks_microblock_trail: the NewMicroblockTrail
    microblocks,        \* returned Vec<StacksMicroblockData>
    raw_tx,             \* get_tx_description: raw_tx argument
    tx_description,     \* get_tx_description: returned Result
    currency_calls,     \* the calls of the two currency resolvers so far, each
                        \* with its arguments, the cache before and after it
                        \* and the currency it returned
    standardizations,   \* the block and trail standardizations on one chain
                        \* context so far, each with its payload's events, the
                        \* events it left and the cache before and after it
    pending,            \* block pool: the pending blocks
    chain,              \* block pool: the confirmed chain, the accepted tip last
    orphaned,           \* block pool: the identifiers marked orphaned
    emitted,            \* block pool: the identifiers emitted downstream, in order
    insertions,         \* block pool: the number of insertions so far
    last_op,            \* block pool: the last operation and the pool before it
    session_counter,    \* bridge: the u32 in the op state, the last session id
    sessions,           \* bridge: HashMap<u32, (String, Session)>
    deployments,        \* bridge: the default DeploymentCache
    event_channel,      \* bridge: the SessionTerminated events sent and not
                        \* yet received
    artifacts,          \* bridge: what run_bridge returned
    returned_ids,       \* bridge: the session ids new_session returned, in order
    terminations,       \* bridge: the sessions terminated, in order, each as
                        \* it was when terminate_session took it
    bridge_call,        \* bridge: the last op call, its arguments, what it
                        \* returned and the op state before it
    bridge_calls        \* bridge: the number of op calls so far

\* the variables of one call of get_standardized_stacks_operations
ops_vars == <<txid, events_in, events, operations, receipt>>

\* the variables of one call of get_value_description
value_vars == <<raw_value, value_description>>

\* the variables of one call of standardize_stacks_block
block_vars == <<block, pox_info, block_data>>

\* the variables of one call of standardize_stacks_microblock_trail
trail_vars == <<microblock_trail, microblocks>>

\* the variables of one call of get_tx_description
tx_vars == <<raw_tx, tx_description>>

\* the variables of the specifications further down
\* the variables of the block pool
pool_vars == <<pending, chain, orphaned, emitted, insertions, last_op>>

\* the variables of the test-runner bridge
bridge_vars == <<session_counter, sessions, deployments, event_channel, artifacts,
                 returned_ids, terminations, bridge_call, bridge_calls>>

later_vars == <<tx_vars, currency_calls, standardizations, pool_vars, bridge_vars>>

vars == <<pc, asset_class_cache, ops_vars, value_vars, block_vars, trail_vars,
          later_vars>>

----------------------------------------------------------------------------
(* Bounds of the model *)

\* largest value of the scaled-down u64
U64Max == 15

\* largest value of the scaled-down u32
U32Max == 3

\* longest events vector handed to one call
MaxEvents == 3

\* longest string handed to get_value_description
MaxStrLen == 4

\* highest block_height of a modelled block
MaxBlockHeight == 3

\* most transactions in a modelled microblock trail
MaxTrailTxs == 3

\* most calls of the currency resolvers in a modelled run
MaxCalls == 3

\* most standardizations on one chain context in a modelled run
MaxStandardizations == 2

\* most insertions into the block pool in a modelled run
MaxInsertions == 5

\* most transactions in a modelled batch (a block and a trail of the same
\* transactions and events)
MaxBatchTxs == 3

\* most events in a modelled batch
MaxBatchEvents == 2

\* longest events vector of a call whose events carry their own committed
\* flag and event_index
MaxFlaggedEvents == 2

\* most op calls of a test script in a modelled run of the bridge
MaxBridgeCalls == 4

----------------------------------------------------------------------------
(* Option and string helpers *)

None == <<>>

Some(x) == <<x>>

\* the values a u64 can hold
U64 == 0..U64Max

\* the values a u32 can hold
U32 == 0..U32Max

Str_STX == <<"S", "T", "X">>

Str_TOKEN == <<"T", "O", "K", "E", "N">>

DecimalDigits == <<"0", "1", "2", "3", "4", "5", "6", "7", "8", "9">>

IsDecimalDigit(c) == \E d \in 1..10 : DecimalDigits[d] = c

DigitValue(c) == (CHOOSE d \in 1..10 : DecimalDigits[d] = c) - 1

\* str::parse::<u64>: a non-empty run of decimal digits whose value fits
RECURSIVE ParseDigits(_, _)
ParseDigits(s, acc) ==
    IF s = <<>> THEN [ok |-> TRUE, value |-> acc]
    ELSE IF ~IsDecimalDigit(Head(s)) THEN [ok |-> FALSE, value |-> 0]
    ELSE LET next == acc * 10 + DigitValue(Head(s))
         IN  IF next > U64Max THEN [ok |-> FALSE, value |-> 0]
             ELSE ParseDigits(Tail(s), next)

ParseU64(s) ==
    IF s = <<>> THEN [ok |-> FALSE, value |-> 0] ELSE ParseDigits(s, 0)

\* Vec::remove(i): the vector without its i-th element, the rest shifted left
RemoveAt(v, i) == [k \in 1..(Len(v) - 1) |-> IF k < i THEN v[k] ELSE v[k + 1]]

\* position of the first "::" in s, or 0
FirstSeparator(s) ==
    LET hits == {k \in 1..(Len(s) - 1) : s[k] = ":" /\ s[k + 1] = ":"}
    IN  IF hits = {} THEN 0 ELSE CHOOSE k \in hits : \A j \in hits : k <= j

\* mutant: the part before the last "::"
SplitBeforeLast(s) ==
    LET hits == {k \in 1..(Len(s) - 1) : s[k] = ":" /\ s[k + 1] = ":"}
    IN  IF hits = {} THEN s
        ELSE SubSeq(s, 1, (CHOOSE k \in hits : \A j \in hits : k >= j) - 1)

\* asset_class_id.split("::").collect::<Vec<_>>()[0]
SplitFirst(s) ==
    IF FirstSeparator(s) = 0 THEN s ELSE SubSeq(s, 1, FirstSeparator(s) - 1)

\* get_mutated_ids: (asset_class_identifier, contract_identifier)
get_mutated_ids(asset_class_id) == <<asset_class_id, SplitFirst(asset_class_id)>>

----------------------------------------------------------------------------
(* Currencies *)

get_stacks_currency == [symbol |-> Str_STX, decimals |-> 6, metadata |-> None]

\* mutant: the insertion starts the map afresh
CacheInsertAfresh(cache, key, entry) ==
    [k \in {key} |-> entry]

\* HashMap::insert
CacheInsert(cache, key, entry) ==
    [k \in (DOMAIN cache) \cup {key} |-> IF k = key THEN entry ELSE cache[k]]

FungibleCurrency(entry, asset_class_id) ==
    [symbol |-> entry.symbol,
     decimals |-> entry.decimals,
     metadata |-> Some([asset_class_identifier |-> asset_class_id,
                        asset_identifier |-> None,
                        standard |-> "Sip10"])]

\* mutant: a miss builds the currency and inserts nothing
FungibleCurrencyNeverCached(asset_class_id, cache) ==
    IF asset_class_id \notin DOMAIN cache
    THEN [currency |-> FungibleCurrency([symbol |-> Str_TOKEN, decimals |-> 6],
                                        asset_class_id),
          cache |-> cache]
    ELSE [currency |-> FungibleCurrency(cache[asset_class_id], asset_class_id),
          cache |-> cache]

\* get_standardized_fungible_currency_from_asset_class_id: the currency and
\* the cache after the call
get_standardized_fungible_currency_from_asset_class_id(asset_class_id, cache) ==
    IF asset_class_id \notin DOMAIN cache
    THEN LET entry == [symbol |-> Str_TOKEN, decimals |-> 6]
         IN  [currency |-> FungibleCurrency(entry, asset_class_id),
              cache |-> CacheInsert(cache, asset_class_id, entry)]
    ELSE [currency |-> FungibleCurrency(cache[asset_class_id], asset_class_id),
          cache |-> cache]

\* mutant: the asset instance is left out of the currency's metadata
NonFungibleCurrencyWithoutAsset(asset_class_id, asset_id) ==
    [symbol |-> asset_class_id,
     decimals |-> 0,
     metadata |-> Some([asset_class_identifier |-> asset_class_id,
                        asset_identifier |-> None,
                        standard |-> "Sip09"])]

\* mutant: the non-fungible currency takes the decimals of fungible tokens
NonFungibleCurrencySixDecimals(asset_class_id, asset_id) ==
    [symbol |-> asset_class_id,
     decimals |-> 6,
     metadata |-> Some([asset_class_identifier |-> asset_class_id,
                        asset_identifier |-> Some(asset_id),
                        standard |-> "Sip09"])]

get_standardized_non_fungible_currency_from_asset_class_id(asset_class_id, asset_id) ==
    [symbol |-> asset_class_id,
     decimals |-> 0,
     metadata |-> Some([asset_class_identifier |-> asset_class_id,
                        asset_identifier |-> Some(asset_id),
                        standard |-> "Sip09"])]

----------------------------------------------------------------------------
(* Value decoder *)

HexDigits ==
    <<"0", "1", "2", "3", "4", "5", "6", "7", "8", "9", "a", "b", "c", "d", "e", "f">>

IsHexDigit(c) == \E d \in 1..16 : HexDigits[d] = c

HexValue(c) == (CHOOSE d \in 1..16 : HexDigits[d] = c) - 1

\* hex_bytes: the characters taken in pairs, each pair one byte; a character
\* that is no hex digit or a character left over is an error
RECURSIVE HexPairs(_)
HexPairs(s) ==
    IF Len(s) = 0 THEN [ok |-> TRUE, bytes |-> <<>>]
    ELSE IF Len(s) = 1 THEN [ok |-> FALSE, bytes |-> <<>>]
    ELSE IF ~IsHexDigit(s[1]) \/ ~IsHexDigit(s[2]) THEN [ok |-> FALSE, bytes |-> <<>>]
    ELSE LET rest == HexPairs(SubSeq(s, 3, Len(s)))
         IN  IF rest.ok
             THEN [ok |-> TRUE,
                   bytes |-> <<HexValue(s[1]) * 16 + HexValue(s[2])>> \o rest.bytes]
             ELSE [ok |-> FALSE, bytes |-> <<>>]

hex_bytes(s) == HexPairs(s)

\* mutant: a leading "0" alone counts as the prefix
StripPrefixOnLeadingZero(s) ==
    IF Len(s) >= 2 /\ s[1] = "0"
    THEN Some(SubSeq(s, 3, Len(s)))
    ELSE None

\* str::strip_prefix("0x"): Some(remainder) or None
strip_prefix_0x(s) ==
    IF Len(s) >= 2 /\ s[1] = "0" /\ s[2] = "x"
    THEN Some(SubSeq(s, 3, Len(s)))
    ELSE None

\* ClarityValue::consensus_deserialize followed by format!("{}", value), for
\* the encodings short enough to occur: the one-byte values true (0x03),
\* false (0x04) and none (0x09), bytes after a complete value left unread.
\* Every other type prefix needs further bytes and ends in an error here.
ClarityValueDisplay(bytes) ==
    IF Len(bytes) = 0 THEN [ok |-> FALSE, display |-> <<>>]
    ELSE IF bytes[1] = 3 THEN [ok |-> TRUE, display |-> <<"t", "r", "u", "e">>]
    ELSE IF bytes[1] = 4 THEN [ok |-> TRUE, display |-> <<"f", "a", "l", "s", "e">>]
    ELSE IF bytes[1] = 9 THEN [ok |-> TRUE, display |-> <<"n", "o", "n", "e">>]
    ELSE [ok |-> FALSE, display |-> <<>>]

\* get_value_description.  After the first match `raw_value` names the
\* remainder behind the prefix, and that is what the two later fallbacks return.
get_value_description(raw) ==
    LET stripped == strip_prefix_0x(raw)
    IN  IF stripped = None THEN raw
        ELSE LET rest == stripped[1]
                 decoded == hex_bytes(rest)
             IN  IF ~decoded.ok THEN rest
                 ELSE LET value == ClarityValueDisplay(decoded.bytes)
                      IN  IF value.ok THEN value.display ELSE rest

----------------------------------------------------------------------------
(* get_standardized_stacks_operations *)

Operation(index, related, type_, address, value, currency) ==
    [operation_identifier |-> [index |-> index, network_index |-> None],
     related_operations |-> related,
     type_ |-> type_,
     status |-> Some("Success"),
     account |-> [address |-> address, sub_account |-> None],
     amount |-> Some([value |-> value, currency |-> currency]),
     metadata |-> None]

\* Some(vec![OperationIdentifier { index, network_index: None }])
RelatedTo(index) == Some(<<[index |-> index, network_index |-> None]>>)

\* mutant: the record is put in front of the earlier ones
PushEventInFront(st, variant, data) ==
    [st EXCEPT !.marshalled_events = <<[variant |-> variant, data |-> data]>> \o @]

\* marshalled_events.push(StacksTransactionEvent::<variant>(data.clone()))
PushEvent(st, variant, data) ==
    [st EXCEPT !.marshalled_events = Append(@, [variant |-> variant, data |-> data])]

\* the two inserts that follow get_mutated_ids
RecordMutatedIds(st, asset_class_id) ==
    LET ids == get_mutated_ids(asset_class_id)
    IN  [st EXCEPT !.mutated_assets_radius = @ \cup {ids[1]},
                   !.mutated_contracts_radius = @ \cup {ids[2]}]

\* mutant: the contract is recorded in the asset set as well
RecordMutatedContractAndAsset(st, contract_identifier) ==
    [st EXCEPT !.mutated_contracts_radius = @ \cup {contract_identifier},
               !.mutated_assets_radius = @ \cup {contract_identifier}]

\* mutated_contracts_radius.insert(data.contract_identifier.clone())
RecordMutatedContract(st, contract_identifier) ==
    [st EXCEPT !.mutated_contracts_radius = @ \cup {contract_identifier}]

\* mutant: operation_id is not advanced after the push
EmitOneWithoutAdvance(st, type_, address, parsed, currency) ==
    IF ~parsed.ok THEN [st EXCEPT !.panicked = TRUE]
    ELSE [st EXCEPT
            !.operations = Append(@, [operation_identifier |->
                                          [index |-> st.operation_id,
                                           network_index |-> <<>>],
                                      related_operations |-> <<>>,
                                      type_ |-> type_,
                                      status |-> <<"Success">>,
                                      account |-> [address |-> address,
                                                   sub_account |-> <<>>],
                                      amount |-> <<[value |-> parsed.value,
                                                    currency |-> currency]>>,
                                      metadata |-> <<>>])]

\* one operations.push followed by operation_id += 1; an amount that does not
\* parse panics ("Unable to parse u64")
EmitOne(st, type_, address, parsed, currency) ==
    IF ~parsed.ok THEN [st EXCEPT !.panicked = TRUE]
    ELSE [st EXCEPT
            !.operations = Append(@, Operation(st.operation_id, None, type_,
                                               address, parsed.value, currency)),
            !.operation_id = @ + 1]

\* mutant: the Credit relates to operation_id instead of operation_id - 1
EmitPairCreditRelatedToSelf(st, sender, recipient, parsed, currency) ==
    IF ~parsed.ok THEN [st EXCEPT !.panicked = TRUE]
    ELSE LET debit_id == st.operation_id
             credit_id == debit_id + 1
             debit == Operation(debit_id, RelatedTo(debit_id + 1), "Debit",
                                sender, parsed.value, currency)
             credit == Operation(credit_id, RelatedTo(credit_id), "Credit",
                                 recipient, parsed.value, currency)
         IN  [st EXCEPT !.operations = Append(Append(@, debit), credit),
                        !.operation_id = credit_id + 1]

\* the Debit / Credit pair of a transfer event
EmitPair(st, sender, recipient, parsed, currency) ==
    IF ~parsed.ok THEN [st EXCEPT !.panicked = TRUE]
    ELSE LET debit_id == st.operation_id
             credit_id == debit_id + 1
             debit == Operation(debit_id, RelatedTo(debit_id + 1), "Debit",
                                sender, parsed.value, currency)
             credit == Operation(credit_id, RelatedTo(credit_id - 1), "Credit",
                                 recipient, parsed.value, currency)
         IN  [st EXCEPT !.operations = Append(Append(@, debit), credit),
                        !.operation_id = credit_id + 1]

\* amount of a non-fungible operation: Amount { value: 1, .. }
One == [ok |-> TRUE, value |-> 1]

\* the currency of a fungible event, resolved through the cache
WithFungible(st, asset_class_id) ==
    LET r == get_standardized_fungible_currency_from_asset_class_id(
                 asset_class_id, st.asset_class_cache)
    IN  [st |-> [st EXCEPT !.asset_class_cache = r.cache], currency |-> r.currency]

NonFungible(data) ==
    get_standardized_non_fungible_currency_from_asset_class_id(
        data.asset_class_identifier, data.hex_asset_identifier)

\* mutant: an event without payload takes up an operation index
NoPayloadCounted(st, event) ==
    [st EXCEPT !.operation_id = @ + 1]

\* the else-if chain ends without an else: an event with no payload field
\* populated, already removed from the vector, leaves everything else alone
NoPayload(st, event) == st

\* the if / else-if chain over the event's populated payload field
ClassifyEvent(st, event) ==
    LET data == event.data
        k == event.kind
    IN  CASE k = "stx_mint_event" ->
               EmitOne(PushEvent(st, "STXMintEvent", data), "Credit",
                       data.recipient, ParseU64(data.amount), get_stacks_currency)
          [] k = "stx_lock_event" ->
               EmitOne(PushEvent(st, "STXLockEvent", data), "Lock",
                       data.locked_address, ParseU64(data.locked_amount),
                       get_stacks_currency)
          [] k = "stx_burn_event" ->
               EmitOne(PushEvent(st, "STXBurnEvent", data), "Debit",
                       data.sender, ParseU64(data.amount), get_stacks_currency)
          [] k = "stx_transfer_event" ->
               EmitPair(PushEvent(st, "STXTransferEvent", data), data.sender,
                        data.recipient, ParseU64(data.amount), get_stacks_currency)
          [] k = "nft_mint_event" ->
               EmitOne(RecordMutatedIds(PushEvent(st, "NFTMintEvent", data),
                                        data.asset_class_identifier),
                       "Credit", data.recipient, One, NonFungible(data))
          [] k = "nft_burn_event" ->
               EmitOne(RecordMutatedIds(PushEvent(st, "NFTBurnEvent", data),
                                        data.asset_class_identifier),
                       "Debit", data.sender, One, NonFungible(data))
          [] k = "nft_transfer_event" ->
               EmitPair(RecordMutatedIds(PushEvent(st, "NFTTransferEvent", data),
                                         data.asset_class_identifier),
                        data.sender, data.recipient, One, NonFungible(data))
          [] k = "ft_mint_event" ->
               LET w == WithFungible(
                            RecordMutatedIds(PushEvent(st, "FTMintEvent", data),
                                             data.asset_class_identifier),
                            data.asset_class_identifier)
               IN  EmitOne(w.st, "Credit", data.recipient,
                           ParseU64(data.amount), w.currency)
          [] k = "ft_burn_event" ->
               LET w == WithFungible(
                            RecordMutatedIds(PushEvent(st, "FTBurnEvent", data),
                                             data.asset_class_identifier),
                            data.asset_class_identifier)
               IN  EmitOne(w.st, "Debit", data.sender,
                           ParseU64(data.amount), w.currency)
          [] k = "ft_transfer_event" ->
               LET w == WithFungible(
                            RecordMutatedIds(PushEvent(st, "FTTransferEvent", data),
                                             data.asset_class_identifier),
                            data.asset_class_identifier)
               IN  EmitPair(w.st, data.sender, data.recipient,
                            ParseU64(data.amount), w.currency)
          [] k = "data_var_set_event" ->
               RecordMutatedContract(PushEvent(st, "DataVarSetEvent", data),
                                     data.contract_identifier)
          [] k = "data_map_insert_event" ->
               RecordMutatedContract(PushEvent(st, "DataMapInsertEvent", data),
                                     data.contract_identifier)
          [] k = "data_map_update_event" ->
               RecordMutatedContract(PushEvent(st, "DataMapUpdateEvent", data),
                                     data.contract_identifier)
          [] k = "data_map_delete_event" ->
               RecordMutatedContract(PushEvent(st, "DataMapDeleteEvent", data),
                                     data.contract_identifier)
          [] k = "contract_event" ->
               RecordMutatedContract(PushEvent(st, "SmartContractEvent", data),
                                     data.contract_identifier)
          [] OTHER -> NoPayload(st, event)

\* mutant: i is advanced after a removal too, skipping the element that
\* moved into the freed slot
ScanStepAlwaysAdvancing(target, st) ==
    IF st.events[st.i].txid = target
    THEN [ClassifyEvent([st EXCEPT !.events = RemoveAt(@, st.i)], st.events[st.i])
             EXCEPT !.i = @ + 1]
    ELSE [st EXCEPT !.i = @ + 1]

\* mutant: an event that is not committed is removed and not classified
ScanStepCommittedOnly(target, st) ==
    IF st.events[st.i].txid = target
    THEN IF st.events[st.i].committed
         THEN ClassifyEvent([st EXCEPT !.events = RemoveAt(@, st.i)], st.events[st.i])
         ELSE [st EXCEPT !.events = RemoveAt(@, st.i)]
    ELSE [st EXCEPT !.i = @ + 1]

\* one iteration of `while i < events.len()`
ScanStep(target, st) ==
    IF st.events[st.i].txid = target
    THEN ClassifyEvent([st EXCEPT !.events = RemoveAt(@, st.i)], st.events[st.i])
    ELSE [st EXCEPT !.i = @ + 1]

RECURSIVE ScanLoop(_, _)
ScanLoop(target, st) ==
    IF st.panicked \/ st.i > Len(st.events) THEN st
    ELSE ScanLoop(target, ScanStep(target, st))

\* StacksTransactionReceipt::new
StacksTransactionReceipt(contracts, assets, evs) ==
    [mutated_contracts_radius |-> contracts,
     mutated_assets_radius |-> assets,
     events |-> evs]

\* what the call hands back once the scan has ended in state `final`
OperationsResult(final) ==
    [panicked |-> final.panicked,
     operations |-> final.operations,
     receipt |-> StacksTransactionReceipt(final.mutated_contracts_radius,
                                          final.mutated_assets_radius,
                                          final.marshalled_events),
     events |-> final.events,
     asset_class_cache |-> final.asset_class_cache]

\* the locals before the scan
ScanStart(evs, cache) ==
    [i |-> 1,
     events |-> evs,
     operations |-> <<>>,
     operation_id |-> 0,
     mutated_contracts_radius |-> {},
     mutated_assets_radius |-> {},
     marshalled_events |-> <<>>,
     asset_class_cache |-> cache,
     panicked |-> FALSE]

\* mutant: the events are scanned by ascending event_index
OperationsByEventIndex(target, evs, cache) ==
    LET least == {n \in DOMAIN evs : \A m \in DOMAIN evs :
                     evs[n].event_index <= evs[m].event_index}
        IsLeast(e) == \E n \in least : evs[n] = e
        IsLater(e) == ~IsLeast(e)
    IN  OperationsResult(
            ScanLoop(target,
                     ScanStart(SelectSeq(evs, IsLeast) \o SelectSeq(evs, IsLater), cache)))

\* the whole call: what it returns, and what it leaves in its two &mut arguments
get_standardized_stacks_operations(target, evs, cache) ==
    OperationsResult(ScanLoop(target, ScanStart(evs, cache)))

----------------------------------------------------------------------------
(* Transaction decoder *)

\* StacksTransaction::consensus_deserialize, reduced to a one-byte stand-in
\* for the wire format: the byte selects one of five transactions, any other
\* byte (or no byte at all) is malformed
DeserializeTransaction(bytes) ==
    IF Len(bytes) = 0 THEN [ok |-> FALSE]
    ELSE CASE bytes[1] = 0 ->
                [ok |-> TRUE, mainnet |-> TRUE,
                 auth |-> [kind |-> "Standard",
                           origin |-> [fee |-> 1, key |-> "k1"]],
                 payload |-> [kind |-> "TokenTransfer", addr |-> "SPk2", amount |-> 5]]
           [] bytes[1] = 3 ->
                [ok |-> TRUE, mainnet |-> FALSE,
                 auth |-> [kind |-> "Sponsored",
                           origin |-> [fee |-> 0, key |-> "k1"],
                           sponsor |-> [fee |-> 2, key |-> "k3"]],
                 payload |-> [kind |-> "ContractCall", address |-> "STk2",
                              contract_name |-> "pool", function_name |-> "swap",
                              function_args |-> <<"u1", "true">>]]
           [] bytes[1] = 9 ->
                [ok |-> TRUE, mainnet |-> FALSE,
                 auth |-> [kind |-> "Standard",
                           origin |-> [fee |-> 3, key |-> "k2"]],
                 payload |-> [kind |-> "SmartContract", name |-> "pool",
                              code_body |-> "(define-public ..)"]]
           [] bytes[1] = 48 ->
                [ok |-> TRUE, mainnet |-> TRUE,
                 auth |-> [kind |-> "Standard",
                           origin |-> [fee |-> 0, key |-> "k1"]],
                 payload |-> [kind |-> "Coinbase"]]
           [] bytes[1] = 51 ->
                [ok |-> TRUE, mainnet |-> TRUE,
                 auth |-> [kind |-> "Standard",
                           origin |-> [fee |-> 1, key |-> "k1"]],
                 payload |-> [kind |-> "PoisonMicroblock"]]
           [] OTHER -> [ok |-> FALSE]

\* address_mainnet() / address_testnet() of a spending condition, as a string
AddressOf(tx, condition) ==
    IF tx.mainnet THEN <<"SP", condition.key>> ELSE <<"ST", condition.key>>

\* tx.origin_address()
OriginAddress(tx) == AddressOf(tx, tx.auth.origin)

\* (fee, sender, sponsor) from tx.auth
AuthDescription(tx) ==
    IF tx.auth.kind = "Standard"
    THEN [fee |-> tx.auth.origin.fee,
          sender |-> AddressOf(tx, tx.auth.origin),
          sponsor |-> None]
    ELSE [fee |-> tx.auth.sponsor.fee,
          sender |-> AddressOf(tx, tx.auth.origin),
          sponsor |-> Some(AddressOf(tx, tx.auth.sponsor))]

\* (description, tx_type) from tx.payload; a format! string is the sequence
\* of its pieces
PayloadDescription(tx) ==
    LET p == tx.payload
    IN  CASE p.kind = "TokenTransfer" ->
               [description |-> <<"transfered: ", p.amount, " uSTX from ",
                                  OriginAddress(tx), " to ", p.addr>>,
                kind |-> [variant |-> "NativeTokenTransfer"]]
          [] p.kind = "ContractCall" ->
               [description |-> <<"invoked: ", p.address, ".", p.contract_name, "::",
                                  p.function_name, "(", p.function_args, ")">>,
                kind |-> [variant |-> "ContractCall",
                          data |-> [contract_identifier |->
                                        <<p.address, ".", p.contract_name>>,
                                    method |-> p.function_name,
                                    args |-> p.function_args]]]
          [] p.kind = "SmartContract" ->
               [description |-> <<"deployed: ", OriginAddress(tx), ".", p.name>>,
                kind |-> [variant |-> "ContractDeployment",
                          data |-> [contract_identifier |->
                                        <<OriginAddress(tx), ".", p.name>>,
                                    code |-> p.code_body]]]
          [] p.kind = "Coinbase" ->
               [description |-> <<"coinbase">>, kind |-> [variant |-> "Coinbase"]]
          [] OTHER ->
               [description |-> <<"other">>, kind |-> [variant |-> "Other"]]

\* the Err(()) of get_tx_description
TxErr == [ok |-> FALSE]

\* mutant: an input without the marker is decoded as it stands
TxDescriptionOfUnmarked(raw) ==
    LET stripped == strip_prefix_0x(raw)
        decoded == hex_bytes(IF stripped = None THEN raw ELSE stripped[1])
    IN  IF ~decoded.ok THEN TxErr
        ELSE LET tx == DeserializeTransaction(decoded.bytes)
             IN  IF ~tx.ok THEN TxErr
                 ELSE [ok |-> TRUE,
                       description |-> PayloadDescription(tx).description,
                       kind |-> PayloadDescription(tx).kind,
                       fee |-> AuthDescription(tx).fee,
                       sender |-> AuthDescription(tx).sender,
                       sponsor |-> AuthDescription(tx).sponsor]

\* get_tx_description: Err(()) or Ok((description, kind, fee, sender, sponsor))
get_tx_description(raw) ==
    LET stripped == strip_prefix_0x(raw)
    IN  IF stripped = None THEN TxErr
        ELSE LET decoded == hex_bytes(stripped[1])
             IN  IF ~decoded.ok THEN TxErr
                 ELSE LET tx == DeserializeTransaction(decoded.bytes)
                      IN  IF ~tx.ok THEN TxErr
                          ELSE [ok |-> TRUE,
                                description |-> PayloadDescription(tx).description,
                                kind |-> PayloadDescription(tx).kind,
                                fee |-> AuthDescription(tx).fee,
                                sender |-> AuthDescription(tx).sender,
                                sponsor |-> AuthDescription(tx).sponsor]

----------------------------------------------------------------------------
(* standardize_stacks_block *)

BlockIdentifier(hash, index) == [hash |-> hash, index |-> index]

\* the hash "0x" followed by 64 zeros; a hash is modelled by a number, equal
\* numbers for equal strings
ZeroHash == 0

\* u32 + u32: with overflow checks the addition panics past u32::MAX, without
\* them it wraps
AddU32(a, b, overflow_checks) ==
    IF a + b <= U32Max THEN [panicked |-> FALSE, value |-> a + b]
    ELSE IF overflow_checks THEN [panicked |-> TRUE, value |-> 0]
    ELSE [panicked |-> FALSE, value |-> (a + b) % (U32Max + 1)]

\* u64 - u64: with overflow checks the subtraction panics below 0, without
\* them it wraps
SubU64(a, b, overflow_checks) ==
    IF a >= b THEN [panicked |-> FALSE, value |-> a - b]
    ELSE IF overflow_checks THEN [panicked |-> TRUE, value |-> 0]
    ELSE [panicked |-> FALSE, value |-> a - b + U64Max + 1]

\* u64 -> u32 try_into().unwrap(): panics when the value does not fit
TryIntoU32(v) ==
    IF v <= U32Max THEN [panicked |-> FALSE, value |-> v]
    ELSE [panicked |-> TRUE, value |-> 0]

\* mutant: the cycle index counts from 1
PoxCycleFromOne(blk, pox, overflow_checks) ==
    LET sum == AddU32(pox.prepare_phase_block_length,
                      pox.reward_phase_block_length, overflow_checks)
        len == SubU64(blk.burn_block_height,
                      pox.first_burnchain_block_height, overflow_checks)
    IN  IF sum.panicked \/ len.panicked \/ sum.value = 0
        THEN [panicked |-> TRUE]
        ELSE LET id == TryIntoU32(len.value \div sum.value + 1)
             IN  IF id.panicked THEN [panicked |-> TRUE]
                 ELSE [panicked |-> FALSE,
                       pox_cycle_length |-> sum.value,
                       current_len |-> len.value,
                       pox_cycle_id |-> id.value]

\* the first four lines of standardize_stacks_block: pox_cycle_length,
\* current_len and pox_cycle_id, or a panic (overflow, division by zero,
\* a cycle id that does not fit a u32)
PoxCycle(blk, pox, overflow_checks) ==
    LET sum == AddU32(pox.prepare_phase_block_length,
                      pox.reward_phase_block_length, overflow_checks)
        len == SubU64(blk.burn_block_height,
                      pox.first_burnchain_block_height, overflow_checks)
    IN  IF sum.panicked \/ len.panicked \/ sum.value = 0
        THEN [panicked |-> TRUE]
        ELSE LET id == TryIntoU32(len.value \div sum.value)
             IN  IF id.panicked THEN [panicked |-> TRUE]
                 ELSE [panicked |-> FALSE,
                       pox_cycle_length |-> sum.value,
                       current_len |-> len.value,
                       pox_cycle_id |-> id.value]

\* mutant: every transaction scans a copy of the events, which stay in place
StandardizeTransactionOnCopy(tx, acc, position) ==
    LET desc == get_tx_description(tx.raw_tx)
    IN  IF ~desc.ok THEN [acc EXCEPT !.panicked = TRUE]
        ELSE LET r == get_standardized_stacks_operations(
                          tx.txid, acc.events, acc.asset_class_cache)
                 data == [transaction_identifier |-> [hash |-> tx.txid],
                          operations |-> r.operations,
                          metadata |-> [success |-> tx.status = "success",
                                        result |-> get_value_description(tx.raw_result),
                                        raw_tx |-> tx.raw_tx,
                                        sender |-> desc.sender,
                                        fee |-> desc.fee,
                                        sponsor |-> desc.sponsor,
                                        kind |-> desc.kind,
                                        execution_cost |-> tx.execution_cost,
                                        receipt |-> r.receipt,
                                        description |-> desc.description,
                                        position |-> position]]
             IN  IF r.panicked
                 THEN [acc EXCEPT !.panicked = TRUE,
                                  !.asset_class_cache = r.asset_class_cache]
                 ELSE [acc EXCEPT !.asset_class_cache = r.asset_class_cache,
                                  !.transactions = Append(@, data)]

\* the closure applied to one transaction of the block: the transaction's
\* StacksTransactionData, and the events vector and the cache it leaves
StandardizeTransaction(tx, acc, position) ==
    LET desc == get_tx_description(tx.raw_tx)
    IN  IF ~desc.ok THEN [acc EXCEPT !.panicked = TRUE]
        ELSE LET r == get_standardized_stacks_operations(
                          tx.txid, acc.events, acc.asset_class_cache)
                 data == [transaction_identifier |-> [hash |-> tx.txid],
                          operations |-> r.operations,
                          metadata |-> [success |-> tx.status = "success",
                                        result |-> get_value_description(tx.raw_result),
                                        raw_tx |-> tx.raw_tx,
                                        sender |-> desc.sender,
                                        fee |-> desc.fee,
                                        sponsor |-> desc.sponsor,
                                        kind |-> desc.kind,
                                        execution_cost |-> tx.execution_cost,
                                        receipt |-> r.receipt,
                                        description |-> desc.description,
                                        position |-> position]]
             IN  IF r.panicked
                 THEN [acc EXCEPT !.panicked = TRUE,
                                  !.events = r.events,
                                  !.asset_class_cache = r.asset_class_cache]
                 ELSE [acc EXCEPT !.events = r.events,
                                  !.asset_class_cache = r.asset_class_cache,
                                  !.transactions = Append(@, data)]

\* mutant: a transaction that fails to decode is left out and the rest goes on
RECURSIVE BlockTransactionsSkipping(_, _)
BlockTransactionsSkipping(txs, acc) ==
    IF txs = <<>> THEN acc
    ELSE BlockTransactionsSkipping(
             Tail(txs),
             [StandardizeTransaction(Head(txs), acc,
                                     [variant |-> "Index", index |-> Head(txs).tx_index])
                 EXCEPT !.panicked = FALSE])

\* block.transactions.iter().map(..).collect()
RECURSIVE BlockTransactions(_, _)
BlockTransactions(txs, acc) ==
    IF acc.panicked \/ txs = <<>> THEN acc
    ELSE BlockTransactions(
             Tail(txs),
             StandardizeTransaction(Head(txs), acc,
                                    [variant |-> "Index", index |-> Head(txs).tx_index]))

\* the accumulator before the first transaction
TransactionsStart(evs, cache) ==
    [panicked |-> FALSE, events |-> evs, asset_class_cache |-> cache,
     transactions |-> <<>>]

\* mutant: the sentinel is not recognised
ConfirmMicroblockAlways(blk) ==
    Some(BlockIdentifier(blk.parent_microblock, blk.parent_microblock_sequence))

confirm_microblock_identifier(blk) ==
    IF blk.parent_microblock = ZeroHash
    THEN None
    ELSE Some(BlockIdentifier(blk.parent_microblock, blk.parent_microblock_sequence))

\* the StacksBlockData literal
StacksBlockData(blk, cycle, parent_index, txs) ==
    [block_identifier |-> BlockIdentifier(blk.index_block_hash, blk.block_height),
     parent_block_identifier |->
         BlockIdentifier(blk.parent_index_block_hash, parent_index),
     timestamp |-> 0,
     metadata |->
         [bitcoin_anchor_block_identifier |->
              BlockIdentifier(blk.burn_block_hash, blk.burn_block_height),
          pox_cycle_index |-> cycle.pox_cycle_id,
          pox_cycle_position |->
              (cycle.current_len % cycle.pox_cycle_length) % (U32Max + 1),
          pox_cycle_length |-> cycle.pox_cycle_length,
          confirm_microblock_identifier |-> confirm_microblock_identifier(blk)],
     transactions |-> txs]

\* standardize_stacks_block: the block it returns, or a panic, and the cache
\* and the local events vector as the call leaves them
standardize_stacks_block(blk, pox, cache, overflow_checks) ==
    LET cycle == PoxCycle(blk, pox, overflow_checks)
        folded == BlockTransactions(blk.transactions,
                                    TransactionsStart(blk.events, cache))
        parent_index == SubU64(blk.block_height, 1, overflow_checks)
    IN  IF cycle.panicked
        THEN [panicked |-> TRUE, asset_class_cache |-> cache, events |-> blk.events]
        ELSE IF folded.panicked \/ parent_index.panicked
                \/ TryIntoU32(cycle.pox_cycle_length).panicked
        THEN [panicked |-> TRUE, asset_class_cache |-> folded.asset_class_cache,
              events |-> folded.events]
        ELSE [panicked |-> FALSE,
              asset_class_cache |-> folded.asset_class_cache,
              events |-> folded.events,
              block_data |-> StacksBlockData(blk, cycle, parent_index.value,
                                             folded.transactions)]

----------------------------------------------------------------------------
(* standardize_stacks_microblock_trail *)

\* the order of BlockIdentifier: by index, then by hash
IdLess(a, b) == a.index < b.index \/ (a.index = b.index /\ a.hash < b.hash)

\* the order of the map's keys, pairs of identifiers
KeyLess(k1, k2) == IdLess(k1[1], k2[1]) \/ (k1[1] = k2[1] /\ IdLess(k1[2], k2[2]))

\* mutant: nothing is subtracted
SubtractNothing(a, b) == a

\* u64::saturating_sub
SaturatingSub(a, b) == IF a >= b THEN a - b ELSE 0

microblock_identifier(tx) == BlockIdentifier(tx.microblock_hash, tx.microblock_sequence)

\* mutant: the parent is built from microblock_parent_hash at sequence 0 too
ParentFromParentHashAlways(tx) ==
    BlockIdentifier(tx.microblock_parent_hash,
                    SaturatingSub(microblock_identifier(tx).index, 1))

parent_microblock_identifier(tx) ==
    IF tx.microblock_sequence > 0
    THEN BlockIdentifier(tx.microblock_parent_hash,
                         SaturatingSub(microblock_identifier(tx).index, 1))
    ELSE microblock_identifier(tx)

\* microblocks_set.entry(key).and_modify(push).or_insert(vec![transaction])
EntryPush(map, key, transaction) ==
    IF key \in DOMAIN map
    THEN [map EXCEPT ![key] = Append(@, transaction)]
    ELSE [k \in (DOMAIN map) \cup {key} |->
            IF k = key THEN <<transaction>> ELSE map[k]]

\* the end of the loop body: the transaction enters the map under its key
TrailInsert(tx, acc, one) ==
    IF one.panicked
    THEN [acc EXCEPT !.panicked = TRUE,
                     !.events = one.events,
                     !.asset_class_cache = one.asset_class_cache]
    ELSE [acc EXCEPT
            !.events = one.events,
            !.asset_class_cache = one.asset_class_cache,
            !.microblocks_set =
                EntryPush(@, <<microblock_identifier(tx),
                               parent_microblock_identifier(tx)>>,
                          one.transactions[1])]

\* the body of `for tx in microblock_trail.transactions.iter()`
TrailStep(tx, acc) ==
    TrailInsert(tx, acc,
                StandardizeTransaction(
                    tx,
                    TransactionsStart(acc.events, acc.asset_class_cache),
                    [variant |-> "Microblock",
                     microblock |-> microblock_identifier(tx),
                     index |-> tx.tx_index]))

RECURSIVE TrailTransactions(_, _)
TrailTransactions(txs, acc) ==
    IF acc.panicked \/ txs = <<>> THEN acc
    ELSE TrailTransactions(Tail(txs), TrailStep(Head(txs), acc))

\* BTreeMap::into_iter: the keys in ascending order
RECURSIVE KeysInOrder(_)
KeysInOrder(keys) ==
    IF keys = {} THEN <<>>
    ELSE LET least == CHOOSE k \in keys : \A j \in keys \ {k} : KeyLess(k, j)
         IN  <<least>> \o KeysInOrder(keys \ {least})

StacksMicroblockData(key, txs, trail) ==
    [block_identifier |-> key[1],
     parent_block_identifier |-> key[2],
     timestamp |-> 0,
     transactions |-> txs,
     metadata |-> [anchor_block_identifier |->
                       BlockIdentifier(trail.parent_index_block_hash, 0)]]

\* sort_by(|a, b| a.block_identifier.cmp(&b.block_identifier)): a stable sort,
\* here by insertion behind the elements that are not greater
RECURSIVE InsertById(_, _)
InsertById(sorted, m) ==
    IF sorted = <<>> THEN <<m>>
    ELSE IF IdLess(m.block_identifier, Head(sorted).block_identifier)
    THEN <<m>> \o sorted
    ELSE <<Head(sorted)>> \o InsertById(Tail(sorted), m)

RECURSIVE SortById(_, _)
SortById(sorted, rest) ==
    IF rest = <<>> THEN sorted
    ELSE SortById(InsertById(sorted, Head(rest)), Tail(rest))

\* `for (..) in microblocks_set.into_iter() { microblocks.push(..) }`
PushMicroblocks(keys, microblocks_set, trail) ==
    [n \in 1..Len(keys) |->
        StacksMicroblockData(keys[n], microblocks_set[keys[n]], trail)]

\* the microblocks the call returns, or a panic, and the cache and the local
\* events vector as the call leaves them
TrailResult(folded, trail) ==
    IF folded.panicked
    THEN [panicked |-> TRUE, asset_class_cache |-> folded.asset_class_cache,
          events |-> folded.events]
    ELSE [panicked |-> FALSE,
          asset_class_cache |-> folded.asset_class_cache,
          events |-> folded.events,
          microblocks |->
              SortById(<<>>,
                       PushMicroblocks(KeysInOrder(DOMAIN folded.microblocks_set),
                                       folded.microblocks_set, trail))]

standardize_stacks_microblock_trail(trail, cache) ==
    TrailResult(TrailTransactions(
                    trail.transactions,
                    [panicked |-> FALSE, events |-> trail.events,
                     asset_class_cache |-> cache, microblocks_set |-> <<>>]),
                trail)

----------------------------------------------------------------------------
(* Inputs of the event standardizer *)

Txids == {"tx1", "tx2"}

\* "<contract>::<asset>" identifiers
AssetClassA == <<"c", ":", ":", "a">>

\* the second identifier holds the separator twice
AssetClassB == <<"d", ":", ":", "b", ":", ":", "x">>

ContractC == <<"c">>

ContractE == <<"e">>

\* decimal amount strings: two that fit a u64, one that overflows it
AmountSeven == <<"7">>

AmountTwelve == <<"1", "2">>

AmountTooBig == <<"9", "9">>

\* a NewEvent with the payload field `kind` populated (kind "none": no field)
Event(t, kind, data) ==
    [txid |-> t, committed |-> TRUE, event_index |-> 0, kind |-> kind, data |-> data]

\* the payloads a node sends, one per event kind, plus variants of amount and asset
EventShapes ==
    { <<"stx_mint_event", [recipient |-> "A2", amount |-> AmountSeven]>>,
      <<"stx_lock_event", [locked_amount |-> AmountSeven, unlock_height |-> AmountTwelve,
                           locked_address |-> "A1"]>>,
      <<"stx_burn_event", [sender |-> "A1", amount |-> AmountSeven]>>,
      <<"stx_transfer_event", [sender |-> "A1", recipient |-> "A2", amount |-> AmountSeven]>>,
      <<"stx_transfer_event", [sender |-> "A1", recipient |-> "A2", amount |-> AmountTooBig]>>,
      <<"nft_mint_event", [asset_class_identifier |-> AssetClassA,
                           hex_asset_identifier |-> <<"0", "x", "1">>, recipient |-> "A2"]>>,
      <<"nft_burn_event", [asset_class_identifier |-> AssetClassA,
                           hex_asset_identifier |-> <<"0", "x", "1">>, sender |-> "A1"]>>,
      <<"nft_transfer_event", [asset_class_identifier |-> AssetClassA,
                               hex_asset_identifier |-> <<"0", "x", "1">>,
                               sender |-> "A1", recipient |-> "A2"]>>,
      <<"ft_mint_event", [asset_class_identifier |-> AssetClassA,
                          recipient |-> "A2", amount |-> AmountSeven]>>,
      <<"ft_burn_event", [asset_class_identifier |-> AssetClassA,
                          sender |-> "A1", amount |-> AmountSeven]>>,
      <<"ft_transfer_event", [asset_class_identifier |-> AssetClassA, sender |-> "A1",
                              recipient |-> "A2", amount |-> AmountSeven]>>,
      <<"ft_transfer_event", [asset_class_identifier |-> AssetClassB, sender |-> "A2",
                              recipient |-> "A1", amount |-> AmountTwelve]>>,
      <<"data_var_set_event", [contract_identifier |-> ContractC]>>,
      <<"data_map_insert_event", [contract_identifier |-> ContractC]>>,
      <<"data_map_update_event", [contract_identifier |-> ContractC]>>,
      <<"data_map_delete_event", [contract_identifier |-> ContractC]>>,
      <<"contract_event", [contract_identifier |-> ContractE]>>,
      <<"none", [raw |-> "unparsed"]>> }

\* the events of the other transactions of the block, which the call skips
OtherShapes ==
    { sh \in EventShapes :
        \/ sh[1] = "none"
        \/ sh[1] = "ft_transfer_event" /\ sh[2].asset_class_identifier = AssetClassB }

\* the events vectors of a call for transaction t
EventsFor(t) ==
    LET universe == {Event(t, sh[1], sh[2]) : sh \in EventShapes}
                    \cup {Event(o, sh[1], sh[2]) : o \in Txids \ {t}, sh \in OtherShapes}
    IN  UNION {[1..n -> universe] : n \in 0..MaxEvents}

\* the cache at the start of the modelled call
EmptyCache == <<>>

\* the value the outputs hold before the call returns
NoReceipt == StacksTransactionReceipt({}, {}, <<>>)

\* no call of get_value_description is modelled
IdleValue == raw_value = <<>> /\ value_description = <<>>

\* no call of standardize_stacks_block is modelled
IdleBlock == block = <<>> /\ pox_info = <<>> /\ block_data = <<>>

\* no call of standardize_stacks_microblock_trail is modelled
IdleTrail == microblock_trail = <<>> /\ microblocks = <<>>

\* no call of get_tx_description is modelled
IdleTx == raw_tx = <<>> /\ tx_description = <<>>

\* none of the specifications further down is running
\* no block pool is modelled
IdlePool ==
    /\ pending = {}
    /\ chain = <<>>
    /\ orphaned = {}
    /\ emitted = <<>>
    /\ insertions = 0
    /\ last_op = <<>>

\* no bridge is modelled
IdleBridge ==
    /\ session_counter = 0
    /\ sessions = <<>>
    /\ deployments = <<>>
    /\ event_channel = <<>>
    /\ artifacts = <<>>
    /\ returned_ids = <<>>
    /\ terminations = <<>>
    /\ bridge_call = <<>>
    /\ bridge_calls = 0

IdleLater ==
    /\ IdleTx
    /\ currency_calls = <<>>
    /\ standardizations = <<>>
    /\ IdlePool
    /\ IdleBridge

\* no call of get_standardized_stacks_operations is modelled
IdleOps ==
    /\ txid = "tx1"
    /\ events_in = <<>>
    /\ events = <<>>
    /\ operations = <<>>
    /\ receipt = NoReceipt

----------------------------------------------------------------------------
(* The event standardizer as a state machine: one call *)

InitOps ==
    /\ pc = "start"
    /\ txid \in Txids
    /\ events \in EventsFor(txid)
    /\ events_in = events
    /\ asset_class_cache = EmptyCache
    /\ operations = <<>>
    /\ receipt = NoReceipt
    /\ IdleValue
    /\ IdleBlock
    /\ IdleTrail
    /\ IdleLater

\* one call of get_standardized_stacks_operations(&txid, &mut events, &mut cache, ..):
\* it returns, or it panics on an amount that is no u64 and returns nothing
CallOps ==
    /\ pc = "start"
    /\ \E r \in {get_standardized_stacks_operations(txid, events, asset_class_cache)} :
          /\ pc' = IF r.panicked THEN "panicked" ELSE "done"
          /\ events' = r.events
          /\ asset_class_cache' = r.asset_class_cache
          /\ operations' = IF r.panicked THEN operations ELSE r.operations
          /\ receipt' = IF r.panicked THEN receipt ELSE r.receipt
    /\ UNCHANGED <<txid, events_in, value_vars, block_vars, trail_vars, later_vars>>

NextOps == CallOps

SpecOps == InitOps /\ [][NextOps]_vars

----------------------------------------------------------------------------
(* The value decoder as a state machine: one call *)

\* the characters of the modelled inputs: the prefix, hex digits that make
\* a valid (03, 09) or an invalid (00, 30, ..) encoding, and a non-hex one
ValueChars == {"0", "x", "3", "9", "g"}

RawValues == UNION {[1..n -> ValueChars] : n \in 0..MaxStrLen}

InitValue ==
    /\ pc = "start"
    /\ raw_value \in RawValues
    /\ value_description = <<>>
    /\ asset_class_cache = EmptyCache
    /\ IdleOps
    /\ IdleBlock
    /\ IdleTrail
    /\ IdleLater

\* get_value_description(&raw_value) returns
CallValue ==
    /\ pc = "start"
    /\ pc' = "done"
    /\ value_description' = get_value_description(raw_value)
    /\ UNCHANGED <<raw_value, asset_class_cache, ops_vars, block_vars, trail_vars,
                   later_vars>>

NextValue == CallValue

SpecValue == InitValue /\ [][NextValue]_vars

----------------------------------------------------------------------------
(* The block standardizer as a state machine: one call *)

RawTxTokenTransfer == <<"0", "x", "0", "0">>

RawResultTrue == <<"0", "x", "0", "3">>

NewTransaction(t, tx_index, status, raw_result, raw) ==
    [txid |-> t, tx_index |-> tx_index, status |-> status,
     raw_result |-> raw_result, raw_tx |-> raw, execution_cost |-> None]

\* the transactions and the events of the modelled blocks: an empty block,
\* and a block of one native transfer with its event and a stray event
BlockBodies ==
    { [transactions |-> <<>>, events |-> <<>>],
      [transactions |-> <<NewTransaction("tx1", 0, "success", RawResultTrue,
                                         RawTxTokenTransfer)>>,
       events |-> <<Event("tx1", "stx_transfer_event",
                          [sender |-> "A1", recipient |-> "A2",
                           amount |-> AmountSeven]),
                    Event("tx2", "none", [raw |-> "unparsed"])>>] }

\* the fields of NewBlock the standardizer reads
NewBlock(height, burn_height, parent_microblock, body) ==
    [block_height |-> height,
     index_block_hash |-> 11,
     burn_block_height |-> burn_height,
     burn_block_hash |-> 20,
     parent_index_block_hash |-> 10,
     parent_microblock |-> parent_microblock,
     parent_microblock_sequence |-> 2,
     transactions |-> body.transactions,
     events |-> body.events]

PoxInfo(first, prepare, reward) ==
    [first_burnchain_block_height |-> first,
     prepare_phase_block_length |-> prepare,
     reward_phase_block_length |-> reward]

InitBlock ==
    /\ pc = "start"
    /\ block \in {NewBlock(h, b, m, body) :
                     h \in 0..MaxBlockHeight, b \in U64,
                     m \in {ZeroHash, 7}, body \in BlockBodies}
    /\ pox_info \in {PoxInfo(f, p, r) : f \in U64, p \in U32, r \in U32}
    /\ block_data = <<>>
    /\ asset_class_cache = EmptyCache
    /\ IdleOps
    /\ IdleValue
    /\ IdleTrail
    /\ IdleLater

\* one call of standardize_stacks_block(config, marshalled_block, ctx), in a
\* build with or without overflow checks: it returns a block, or it panics
CallBlock ==
    /\ pc = "start"
    /\ \E overflow_checks \in BOOLEAN :
         \E r \in {standardize_stacks_block(block, pox_info, asset_class_cache,
                                             overflow_checks)} :
            /\ pc' = IF r.panicked THEN "panicked" ELSE "done"
            /\ asset_class_cache' = r.asset_class_cache
            /\ events' = r.events
            /\ block_data' = IF r.panicked THEN block_data ELSE r.block_data
    /\ UNCHANGED <<block, pox_info, txid, events_in, operations, receipt, value_vars,
                   trail_vars, later_vars>>

NextBlock == CallBlock

SpecBlock == InitBlock /\ [][NextBlock]_vars

----------------------------------------------------------------------------
(* The transaction decoder as a state machine: one call *)

\* the inputs of the modelled calls: the strings of RawValues, whose hex
\* pairs 00, 03, 09, 30, 33 decode to a transaction and whose others do not
RawTxs == RawValues

InitTx ==
    /\ pc = "start"
    /\ raw_tx \in RawTxs
    /\ tx_description = <<>>
    /\ asset_class_cache = EmptyCache
    /\ currency_calls = <<>>
    /\ standardizations = <<>>
    /\ IdlePool
    /\ IdleBridge
    /\ IdleOps
    /\ IdleValue
    /\ IdleBlock
    /\ IdleTrail

\* get_tx_description(&raw_tx) returns Ok or Err
CallTx ==
    /\ pc = "start"
    /\ pc' = "done"
    /\ tx_description' = get_tx_description(raw_tx)
    /\ UNCHANGED <<raw_tx, asset_class_cache, currency_calls, standardizations,
                   pool_vars, bridge_vars, ops_vars, value_vars, block_vars, trail_vars>>

NextTx == CallTx

SpecTx == InitTx /\ [][NextTx]_vars

----------------------------------------------------------------------------
(* The currency resolvers as a state machine: calls sharing one cache *)

AssetClassIds == {AssetClassA, AssetClassB}

AssetIds == {<<"0", "x", "1">>, <<"0", "x", "2">>}

\* the cache is the one a new chain context holds, filled by the calls alone
InitCurrency ==
    /\ pc = "start"
    /\ asset_class_cache = EmptyCache
    /\ currency_calls = <<>>
    /\ standardizations = <<>>
    /\ IdlePool
    /\ IdleBridge
    /\ IdleOps
    /\ IdleValue
    /\ IdleBlock
    /\ IdleTrail
    /\ IdleTx

\* get_standardized_fungible_currency_from_asset_class_id(id, &mut cache, _)
CallFungible ==
    /\ pc = "start"
    /\ Len(currency_calls) < MaxCalls
    /\ \E id \in AssetClassIds :
          \E r \in {get_standardized_fungible_currency_from_asset_class_id(
                        id, asset_class_cache)} :
              /\ asset_class_cache' = r.cache
              /\ currency_calls' =
                    Append(currency_calls,
                           [fungible |-> TRUE, asset_class_id |-> id,
                            asset_id |-> None,
                            cache_before |-> asset_class_cache,
                            cache_after |-> r.cache,
                            currency |-> r.currency])
    /\ UNCHANGED <<pc, standardizations, pool_vars, bridge_vars, ops_vars, value_vars,
                   block_vars, trail_vars, tx_vars>>

\* get_standardized_non_fungible_currency_from_asset_class_id(id, asset, &mut cache)
CallNonFungible ==
    /\ pc = "start"
    /\ Len(currency_calls) < MaxCalls
    /\ \E id \in AssetClassIds, asset \in AssetIds :
          currency_calls' =
              Append(currency_calls,
                     [fungible |-> FALSE, asset_class_id |-> id,
                      asset_id |-> Some(asset),
                      cache_before |-> asset_class_cache,
                      cache_after |-> asset_class_cache,
                      currency |->
                          get_standardized_non_fungible_currency_from_asset_class_id(
                              id, asset)])
    /\ UNCHANGED <<pc, asset_class_cache, standardizations, pool_vars, bridge_vars, ops_vars,
                   value_vars, block_vars, trail_vars, tx_vars>>

NextCurrency == CallFungible \/ CallNonFungible

SpecCurrency == InitCurrency /\ [][NextCurrency]_vars

----------------------------------------------------------------------------
(* The microblock-trail standardizer as a state machine: one call *)

MicroblockSequences == {0, 1, 2}

LastSequence == 2

MicroblockHashes == {31, 32}

NewMicroblockTransaction(t, sequence, hash, parent_hash) ==
    [txid |-> t, tx_index |-> 0, status |-> "success",
     raw_result |-> RawResultTrue, raw_tx |-> RawTxTokenTransfer,
     execution_cost |-> None,
     microblock_sequence |-> sequence,
     microblock_hash |-> hash,
     microblock_parent_hash |-> parent_hash]

\* the transactions a modelled trail is made of: at the sequences below the
\* last, either hash with either parent hash; at the last sequence, one hash
MicroblockTransactions ==
    {NewMicroblockTransaction(t, q, h, ph) :
        t \in Txids, q \in MicroblockSequences \ {LastSequence},
        h \in MicroblockHashes, ph \in MicroblockHashes}
    \cup {NewMicroblockTransaction(t, LastSequence, 31, ph) :
            t \in Txids, ph \in MicroblockHashes}

\* the events of the modelled trails: a native transfer of tx1 and a
\* data-var-set of tx2
TrailEvents ==
    <<Event("tx1", "stx_transfer_event",
            [sender |-> "A1", recipient |-> "A2", amount |-> AmountSeven]),
      Event("tx2", "data_var_set_event", [contract_identifier |-> ContractC])>>

\* the fields of NewMicroblockTrail the standardizer reads
NewMicroblockTrail(txs) ==
    [parent_index_block_hash |-> 10, transactions |-> txs, events |-> TrailEvents]

InitTrail ==
    /\ pc = "start"
    /\ microblock_trail \in
          {NewMicroblockTrail(txs) :
              txs \in UNION {[1..n -> MicroblockTransactions] : n \in 0..MaxTrailTxs}}
    /\ microblocks = <<>>
    /\ asset_class_cache = EmptyCache
    /\ IdleOps
    /\ IdleValue
    /\ IdleBlock
    /\ IdleLater

\* one call of standardize_stacks_microblock_trail(config, marshalled_trail, ctx)
CallTrail ==
    /\ pc = "start"
    /\ \E r \in {standardize_stacks_microblock_trail(microblock_trail,
                                                       asset_class_cache)} :
          /\ pc' = IF r.panicked THEN "panicked" ELSE "done"
          /\ asset_class_cache' = r.asset_class_cache
          /\ events' = r.events
          /\ microblocks' = IF r.panicked THEN microblocks ELSE r.microblocks
    /\ UNCHANGED <<microblock_trail, txid, events_in, operations, receipt,
                   value_vars, block_vars, later_vars>>

NextTrail == CallTrail

SpecTrail == InitTrail /\ [][NextTrail]_vars

----------------------------------------------------------------------------
(* Standardizations sharing one chain context *)

ContextPoxInfo == PoxInfo(0, 1, 2)

\* the events of the modelled payloads: fungible events of either
\* transaction, one with an amount that is no u64, and a non-fungible event
FtMintA == Event("tx1", "ft_mint_event",
                 [asset_class_identifier |-> AssetClassA, recipient |-> "A2",
                  amount |-> AmountSeven])

FtTransferB == Event("tx2", "ft_transfer_event",
                     [asset_class_identifier |-> AssetClassB, sender |-> "A1",
                      recipient |-> "A2", amount |-> AmountTwelve])

FtBurnBTooBig == Event("tx1", "ft_burn_event",
                       [asset_class_identifier |-> AssetClassB, sender |-> "A1",
                        amount |-> AmountTooBig])

NftMintB == Event("tx1", "nft_mint_event",
                  [asset_class_identifier |-> AssetClassB, recipient |-> "A2",
                   hex_asset_identifier |-> <<"0", "x", "1">>])

ContextEvents ==
    { <<>>, <<FtMintA>>, <<FtTransferB>>, <<NftMintB>>, <<FtBurnBTooBig>>,
      <<FtMintA, FtTransferB>>, <<FtTransferB, FtMintA, NftMintB>>,
      <<FtMintA, FtBurnBTooBig, FtTransferB>> }

\* the transactions of the modelled payloads, by their txids
ContextTxids == { <<"tx1">>, <<"tx2">>, <<"tx1", "tx2">> }

ContextBlock(txids, evs) ==
    NewBlock(1, 0, ZeroHash,
             [transactions |->
                  [n \in 1..Len(txids) |->
                      NewTransaction(txids[n], n - 1, "success", RawResultTrue,
                                     RawTxTokenTransfer)],
              events |-> evs])

ContextTrail(txids, evs) ==
    [parent_index_block_hash |-> 10,
     transactions |->
         [n \in 1..Len(txids) |-> NewMicroblockTransaction(txids[n], 0, 31, 31)],
     events |-> evs]

\* what a standardization leaves behind
Standardization(kind, evs, r, cache) ==
    [kind |-> kind, events_in |-> evs, events_left |-> r.events,
     cache_before |-> cache, cache_after |-> r.asset_class_cache,
     panicked |-> r.panicked]

\* a new chain context: the cache is empty
InitContext ==
    /\ pc = "start"
    /\ asset_class_cache = EmptyCache
    /\ standardizations = <<>>
    /\ currency_calls = <<>>
    /\ IdlePool
    /\ IdleBridge
    /\ IdleOps
    /\ IdleValue
    /\ IdleBlock
    /\ IdleTrail
    /\ IdleTx

\* standardize_stacks_block(config, marshalled_block, ctx) on the shared context
StandardizeBlock ==
    /\ pc = "start"
    /\ Len(standardizations) < MaxStandardizations
    /\ \E txids \in ContextTxids, evs \in ContextEvents :
          \E r \in {standardize_stacks_block(ContextBlock(txids, evs), ContextPoxInfo,
                                              asset_class_cache, TRUE)} :
              /\ pc' = IF r.panicked THEN "panicked" ELSE "start"
              /\ asset_class_cache' = r.asset_class_cache
              /\ standardizations' =
                    Append(standardizations,
                           Standardization("block", evs, r, asset_class_cache))
    /\ UNCHANGED <<currency_calls, pool_vars, bridge_vars, ops_vars, value_vars, block_vars,
                   trail_vars, tx_vars>>

\* standardize_stacks_microblock_trail(config, marshalled_trail, ctx) on the
\* shared context
StandardizeTrail ==
    /\ pc = "start"
    /\ Len(standardizations) < MaxStandardizations
    /\ \E txids \in ContextTxids, evs \in ContextEvents :
          \E r \in {standardize_stacks_microblock_trail(ContextTrail(txids, evs),
                                                         asset_class_cache)} :
              /\ pc' = IF r.panicked THEN "panicked" ELSE "start"
              /\ asset_class_cache' = r.asset_class_cache
              /\ standardizations' =
                    Append(standardizations,
                           Standardization("trail", evs, r, asset_class_cache))
    /\ UNCHANGED <<currency_calls, pool_vars, bridge_vars, ops_vars, value_vars, block_vars,
                   trail_vars, tx_vars>>

NextContext == StandardizeBlock \/ StandardizeTrail

SpecContext == InitContext /\ [][NextContext]_vars

----------------------------------------------------------------------------
(* The block pool (StacksBlockPool), after section 4.6 of the specification: *)
(* its operations are insert, confirm and orphan, serialized                 *)

\* the identifier of the block the pool accepts at the start
GenesisId == 0

\* a pending entry is keyed by its identifier and its parent identifier
PoolBlock(id, parent) == [block_identifier |-> id, parent_block_identifier |-> parent]

\* the blocks of the modelled runs: 1 on the genesis block, the siblings 2
\* and 3 on 1, 4 on 3, and 6 on a block 5 that never arrives
PoolBlocks ==
    {PoolBlock(1, GenesisId), PoolBlock(2, 1), PoolBlock(3, 1), PoolBlock(4, 3),
     PoolBlock(6, 5)}

\* the currently accepted tip
Tip == chain[Len(chain)]

ConfirmedIds == {chain[n] : n \in DOMAIN chain}

PendingIds == {b.block_identifier : b \in pending}

\* mutant: every block counts as extending every other
ExtendsAnything(b, id) == TRUE

\* the block's parent identifier is the given identifier
Extends(b, id) == b.parent_block_identifier = id

\* mutant: no identifier counts as known
NeverSeen(b) == FALSE

\* the identifier is confirmed already, or was and has been orphaned since
AlreadyConfirmed(b) ==
    b.block_identifier \in ConfirmedIds \cup orphaned

\* the pool as an operation finds it
PoolBefore(op, b) ==
    [op |-> op, block |-> b, tip |-> Tip, pending |-> pending,
     emitted |-> emitted, confirmed |-> ConfirmedIds, orphaned |-> orphaned]

\* mutant: the block is confirmed and nothing is emitted
ConfirmBlockSilently(b) ==
    /\ chain' = Append(chain, b.block_identifier)
    /\ pending' = pending \ {b}
    /\ UNCHANGED <<orphaned, emitted>>

\* the block transitions to confirmed, becomes the new tip and is emitted
ConfirmBlock(b) ==
    /\ chain' = Append(chain, b.block_identifier)
    /\ emitted' = Append(emitted, b.block_identifier)
    /\ pending' = pending \ {b}
    /\ UNCHANGED orphaned

InitPool ==
    /\ pc = "start"
    /\ asset_class_cache = EmptyCache
    /\ pending = {}
    /\ chain = <<GenesisId>>
    /\ orphaned = {}
    /\ emitted = <<>>
    /\ insertions = 0
    /\ last_op = [op |-> "none"]
    /\ IdleBridge
    /\ currency_calls = <<>>
    /\ standardizations = <<>>
    /\ IdleOps
    /\ IdleValue
    /\ IdleBlock
    /\ IdleTrail
    /\ IdleTx

\* insert: a block known as confirmed changes nothing; a block on the accepted
\* tip is confirmed at once; any other block is buffered as pending
Insert ==
    /\ insertions < MaxInsertions
    /\ \E b \in PoolBlocks :
          /\ last_op' = PoolBefore("insert", b)
          /\ IF AlreadyConfirmed(b)
             THEN UNCHANGED <<pending, chain, orphaned, emitted>>
             ELSE IF Extends(b, Tip)
             THEN ConfirmBlock(b)
             ELSE /\ pending' = pending \cup {b}
                  /\ UNCHANGED <<chain, orphaned, emitted>>
    /\ insertions' = insertions + 1
    /\ UNCHANGED <<pc, asset_class_cache, currency_calls, standardizations, bridge_vars, ops_vars,
                   value_vars, block_vars, trail_vars, tx_vars>>

\* confirm: a pending block whose parent has become the accepted tip
Confirm ==
    /\ \E b \in pending :
          /\ Extends(b, Tip)
          /\ last_op' = PoolBefore("confirm", b)
          /\ ConfirmBlock(b)
    /\ UNCHANGED <<insertions, pc, asset_class_cache, currency_calls, standardizations, bridge_vars,
                   ops_vars, value_vars, block_vars, trail_vars, tx_vars>>

\* the pending blocks form a branch, each on the one before
IsBranch(path) ==
    \A n \in 1..(Len(path) - 1) : Extends(path[n + 1], path[n].block_identifier)

\* orphan: a buffered branch on an earlier ancestor has grown longer than the
\* accepted branch above that ancestor; the buffered branch is confirmed in
\* order and the blocks of the abandoned branch are marked orphaned
Orphan ==
    /\ \E a \in 1..(Len(chain) - 1), k \in 1..Cardinality(pending) :
          \E path \in [1..k -> pending] :
              /\ IsBranch(path)
              /\ Extends(path[1], chain[a])
              /\ k > Len(chain) - a
              /\ last_op' = PoolBefore("orphan", path[1])
              /\ orphaned' = orphaned \cup {chain[n] : n \in (a + 1)..Len(chain)}
              /\ chain' = SubSeq(chain, 1, a)
                              \o [n \in 1..k |-> path[n].block_identifier]
              /\ emitted' = emitted \o [n \in 1..k |-> path[n].block_identifier]
              /\ pending' = pending \ {path[n] : n \in 1..k}
    /\ UNCHANGED <<insertions, pc, asset_class_cache, currency_calls, standardizations, bridge_vars,
                   ops_vars, value_vars, block_vars, trail_vars, tx_vars>>

NextPool == Insert \/ Confirm \/ Orphan

SpecPool == InitPool /\ [][NextPool]_vars

----------------------------------------------------------------------------
(* Batches: a block and a microblock trail of several transactions that    *)
(* share one events list                                                    *)

\* a raw_tx that is hex and 0x-marked but decodes to no transaction
RawTxUndecodable == <<"0", "x", "9", "9">>

BatchRawTxs == {RawTxTokenTransfer, RawTxUndecodable}

\* the events of the modelled batches: a native transfer of tx1, a native
\* mint of tx2, and a native burn of tx3, which no batch holds
TransferOfTx1 ==
    Event("tx1", "stx_transfer_event",
          [sender |-> "A1", recipient |-> "A2", amount |-> AmountSeven])

MintOfTx2 ==
    Event("tx2", "stx_mint_event", [recipient |-> "A2", amount |-> AmountTwelve])

BurnOfTx3 ==
    Event("tx3", "stx_burn_event", [sender |-> "A3", amount |-> AmountSeven])

BatchEvents == {TransferOfTx1, MintOfTx2, BurnOfTx3}

\* the transactions of a batch as <<txid, raw_tx>> pairs, in payload order
BatchTransactions ==
    UNION {[1..n -> Txids \X BatchRawTxs] : n \in 0..MaxBatchTxs}

BatchEventLists ==
    UNION {[1..n -> BatchEvents] : n \in 0..MaxBatchEvents}

BatchBlock(txs, evs) ==
    NewBlock(1, 0, ZeroHash,
             [transactions |->
                  [n \in 1..Len(txs) |->
                      NewTransaction(txs[n][1], n - 1, "success", RawResultTrue,
                                     txs[n][2])],
              events |-> evs])

\* every transaction of the trail sits in the microblock 31 of sequence 0
BatchTrail(txs, evs) ==
    [parent_index_block_hash |-> 10,
     transactions |->
         [n \in 1..Len(txs) |->
             [NewMicroblockTransaction(txs[n][1], 0, 31, 31)
                 EXCEPT !.raw_tx = txs[n][2], !.tx_index = n - 1]],
     events |-> evs]

\* the same transactions and events arrive as a block and as a trail
InitBatch ==
    /\ pc = "start"
    /\ \E txs \in BatchTransactions, evs \in BatchEventLists :
          /\ block = BatchBlock(txs, evs)
          /\ microblock_trail = BatchTrail(txs, evs)
    /\ pox_info = ContextPoxInfo
    /\ block_data = <<>>
    /\ microblocks = <<>>
    /\ asset_class_cache = EmptyCache
    /\ IdleOps
    /\ IdleValue
    /\ IdleLater

\* standardize_stacks_block on the batch
BatchStandardizeBlock ==
    /\ pc = "start"
    /\ \E r \in {standardize_stacks_block(block, pox_info, asset_class_cache, TRUE)} :
          /\ pc' = IF r.panicked THEN "block_panicked" ELSE "block_done"
          /\ asset_class_cache' = r.asset_class_cache
          /\ events' = r.events
          /\ block_data' = IF r.panicked THEN block_data ELSE r.block_data
    /\ UNCHANGED <<block, pox_info, microblock_trail, microblocks, txid, events_in,
                   operations, receipt, value_vars, later_vars>>

\* standardize_stacks_microblock_trail on the batch
BatchStandardizeTrail ==
    /\ pc = "start"
    /\ \E r \in {standardize_stacks_microblock_trail(microblock_trail,
                                                       asset_class_cache)} :
          /\ pc' = IF r.panicked THEN "trail_panicked" ELSE "trail_done"
          /\ asset_class_cache' = r.asset_class_cache
          /\ events' = r.events
          /\ microblocks' = IF r.panicked THEN microblocks ELSE r.microblocks
    /\ UNCHANGED <<block, pox_info, block_data, microblock_trail, txid, events_in,
                   operations, receipt, value_vars, later_vars>>

NextBatch == BatchStandardizeBlock \/ BatchStandardizeTrail

SpecBatch == InitBatch /\ [][NextBatch]_vars

----------------------------------------------------------------------------
(* The event standardizer on events that carry their own committed flag    *)
(* and event_index                                                          *)

\* one payload per populated event kind
FlaggedShapes ==
    { sh \in EventShapes :
        /\ sh[1] # "none"
        /\ "amount" \in DOMAIN sh[2] => sh[2].amount = AmountSeven
        /\ "asset_class_identifier" \in DOMAIN sh[2] =>
               sh[2].asset_class_identifier = AssetClassA }

\* NewEvent.committed and NewEvent.event_index as the node sent them
FlaggedEvent(t, sh, committed, event_index) ==
    [Event(t, sh[1], sh[2]) EXCEPT !.committed = committed,
                                   !.event_index = event_index]

\* the kinds the other events of a vector are of
CommonShapes ==
    { sh \in FlaggedShapes : sh[1] \in {"stx_mint_event", "nft_transfer_event"} }

\* the events vectors of a call for tx1: an event of any kind at any
\* position among events of the common kinds, each committed or not, the
\* event_index running with the list or against it
FlaggedEventLists ==
    UNION { { [n \in 1..len |->
                 FlaggedEvent("tx1", shapes[n], flags[n],
                              IF ascending THEN n - 1 ELSE len - n)] :
              shapes \in { f \in [1..len -> FlaggedShapes] :
                             \E p \in 1..len :
                                 \A n \in (1..len) \ {p} : f[n] \in CommonShapes },
              flags \in [1..len -> BOOLEAN],
              ascending \in BOOLEAN } :
            len \in 0..MaxFlaggedEvents }

InitFlags ==
    /\ pc = "start"
    /\ txid = "tx1"
    /\ events \in FlaggedEventLists
    /\ events_in = events
    /\ asset_class_cache = EmptyCache
    /\ operations = <<>>
    /\ receipt = NoReceipt
    /\ IdleValue
    /\ IdleBlock
    /\ IdleTrail
    /\ IdleLater

NextFlags == CallOps

SpecFlags == InitFlags /\ [][NextFlags]_vars

----------------------------------------------------------------------------
(* The test-runner bridge (components/clarinet-cli/src/runner/api_v1.rs):   *)
(* the ops a test script calls, and run_bridge collecting the artifacts     *)

\* clarity_repl::repl::Session, reduced to what the ops read and write: the
\* chain tip, the tx sender, whether the deployment's contracts are in it,
\* and the two report vectors, whose entries are the test names they were
\* recorded under
Session(chain_tip, contracts) ==
    [chain_tip |-> chain_tip,
     tx_sender |-> "deployer",
     contracts |-> contracts,
     coverage_reports |-> <<>>,
     costs_reports |-> <<>>]

\* the default DeploymentCache: the session with the contracts deployed and
\* the session with the accounts only
DefaultCache ==
    [session |-> Session(1, TRUE), session_accounts_only |-> Session(0, FALSE)]

\* Session::advance_chain_tip(count)
advance_chain_tip(session, count) == [session EXCEPT !.chain_tip = @ + count]

\* Session::set_tx_sender
set_tx_sender(session, sender) == [session EXCEPT !.tx_sender = sender]

\* a snippet the session executed: it leaves a coverage report under the
\* test name and, when costs are tracked, a costs report
Executed(session, test_name, cost_track) ==
    [session EXCEPT !.coverage_reports = Append(@, test_name),
                    !.costs_reports = IF cost_track THEN Append(@, test_name) ELSE @]

\* HashMap::insert and HashMap::remove on the sessions
SessionsInsert(map, id, entry) ==
    [k \in (DOMAIN map) \cup {id} |-> IF k = id THEN entry ELSE map[k]]

SessionsRemove(map, id) == [k \in (DOMAIN map) \ {id} |-> map[k]]

\* the op state an op call finds, kept with the call
OpStateBefore ==
    [session_counter |-> session_counter,
     sessions |-> sessions,
     deployments |-> deployments,
     sent |-> Len(event_channel)]

\* an op call: its op, the session id it names, its other arguments, whether
\* it returned (it panicked otherwise) and what it returned
OpCall(op, session_id, args, returned, result) ==
    [op |-> op, session_id |-> session_id, args |-> args, returned |-> returned,
     result |-> result, before |-> OpStateBefore]

SessionNames == {"t1", "t2"}

\* the session ids a script passes: the registered ones, the ones it got
\* before, and one it never got
IdsToTry ==
    (DOMAIN sessions) \cup {returned_ids[n] : n \in DOMAIN returned_ids}
        \cup {session_counter + 1}

\* run_bridge up to the start of the tests: no session, the counter at 0,
\* the default deployment in place, nothing sent
InitBridge ==
    /\ pc = "running"
    /\ session_counter = 0
    /\ sessions = <<>>
    /\ deployments = DefaultCache
    /\ event_channel = <<>>
    /\ artifacts = <<>>
    /\ returned_ids = <<>>
    /\ terminations = <<>>
    /\ bridge_call = [op |-> "none"]
    /\ bridge_calls = 0
    /\ asset_class_cache = EmptyCache
    /\ IdleOps
    /\ IdleValue
    /\ IdleBlock
    /\ IdleTrail
    /\ IdleTx
    /\ currency_calls = <<>>
    /\ standardizations = <<>>
    /\ IdlePool

\* what no op of the bridge touches
BridgeFrame ==
    UNCHANGED <<asset_class_cache, ops_vars, value_vars, block_vars, trail_vars,
                tx_vars, currency_calls, standardizations, pool_vars>>

\* a script may call an op
MayCall == pc = "running" /\ bridge_calls < MaxBridgeCalls

\* mutant: the smallest id no session is registered under
SmallestFreeId ==
    CHOOSE k \in 1..(session_counter + 1) :
        /\ k \notin DOMAIN sessions
        /\ \A j \in 1..(k - 1) : j \in DOMAIN sessions

\* `*session_id += 1; session_id.clone()` on the u32 of the op state
NextSessionId == session_counter + 1

\* new_session with no deployment path: the next id, a clone of the cache's
\* session (load_deployment) or of its accounts-only session, registered
\* under the id
new_session ==
    /\ MayCall
    /\ \E name \in SessionNames, load_deployment \in BOOLEAN :
          LET session_id == NextSessionId
              session == IF load_deployment THEN deployments.session
                         ELSE deployments.session_accounts_only
          IN  /\ session_counter' = session_id
              /\ sessions' = SessionsInsert(sessions, session_id, <<name, session>>)
              /\ returned_ids' = Append(returned_ids, session_id)
              /\ bridge_call' = OpCall("new_session", session_id,
                                       [name |-> name,
                                        load_deployment |-> load_deployment],
                                       TRUE, session_id)
    /\ bridge_calls' = bridge_calls + 1
    /\ UNCHANGED <<pc, deployments, event_channel, artifacts, terminations>>
    /\ BridgeFrame


\* tx.send(ClarinetTestEvent::SessionTerminated(session_artifacts))
Send(channel, session_artifacts) == Append(channel, session_artifacts)

\* the SessionArtifacts terminate_session builds from the removed session
SessionArtifacts(session) ==
    [coverage_reports |-> session.coverage_reports,
     costs_reports |-> session.costs_reports]

\* a call that panicked: the process is gone, with whatever the op had
\* written to the op state before
Panicked(op, session_id, args) ==
    /\ pc' = "panicked"
    /\ bridge_call' = OpCall(op, session_id, args, FALSE, <<>>)
    /\ bridge_calls' = bridge_calls + 1

\* terminate_session: the session is removed ("unable to retrieve session"
\* panics when there is none), its reports are sent as one SessionTerminated
terminate_session ==
    /\ MayCall
    /\ \E session_id \in IdsToTry :
          IF session_id \notin DOMAIN sessions
          THEN /\ Panicked("terminate_session", session_id, <<>>)
               /\ UNCHANGED <<sessions, event_channel, terminations>>
          ELSE /\ sessions' = SessionsRemove(sessions, session_id)
               /\ event_channel' =
                     Send(event_channel, SessionArtifacts(sessions[session_id][2]))
               /\ terminations' =
                     Append(terminations,
                            [session_id |-> session_id,
                             session |-> sessions[session_id][2]])
               /\ bridge_call' = OpCall("terminate_session", session_id, <<>>,
                                        TRUE, TRUE)
               /\ bridge_calls' = bridge_calls + 1
               /\ UNCHANGED pc
    /\ UNCHANGED <<session_counter, deployments, artifacts, returned_ids>>
    /\ BridgeFrame

\* mutant: a missing session id falls back to the smallest registered one
SessionOrFirst(map, session_id) ==
    IF session_id \in DOMAIN map THEN Some(session_id)
    ELSE IF DOMAIN map = {} THEN None
    ELSE Some(CHOOSE k \in DOMAIN map : \A j \in DOMAIN map : k <= j)

\* sessions.get_mut(&session_id) in perform_block: the key of the entry the
\* handler runs on, or None ("Error: unable to retrieve session", panic)
SessionOf(map, session_id) ==
    IF session_id \in DOMAIN map THEN Some(session_id) ELSE None

\* mutant: the sessions are one Session behind every id, not copies
WriteShared(map, key, session) == [k \in DOMAIN map |-> <<map[k][1], session>>]

\* what the handler did to its &mut Session stays in the entry of its key
WriteThrough(map, key, session) == [map EXCEPT ![key] = <<@[1], session>>]

\* perform_block: the handler runs on the (name, &mut Session) of the entry
\* under session_id and its outcome [session, returned, result] is written
\* through; without an entry it panics. Handled[k] is what the caller's
\* closure makes of the entry under k
perform_block(op, session_id, args, Handled) ==
    LET found == SessionOf(sessions, session_id)
    IN  IF found = None
        THEN /\ Panicked(op, session_id, args)
             /\ UNCHANGED sessions
        ELSE LET key == found[1]
                 out == Handled[key]
             IN  /\ sessions' = WriteThrough(sessions, key, out.session)
                 /\ bridge_call' = OpCall(op, session_id, args, out.returned,
                                          out.result)
                 /\ bridge_calls' = bridge_calls + 1
                 /\ pc' = IF out.returned THEN pc ELSE "panicked"

\* what the ops on a session leave alone
SessionOpFrame ==
    /\ UNCHANGED <<session_counter, deployments, event_channel, artifacts,
                   returned_ids, terminations>>
    /\ BridgeFrame

\* mine_empty_blocks: session.advance_chain_tip(args.count)
MineEmptyBlocksHandler(count, name, session) ==
    LET advanced == advance_chain_tip(session, count)
    IN  [session |-> advanced, returned |-> TRUE, result |-> advanced.chain_tip]

EmptyBlockCounts == {0, 2}

mine_empty_blocks ==
    /\ MayCall
    /\ \E session_id \in IdsToTry, count \in EmptyBlockCounts :
          perform_block("mine_empty_blocks", session_id, [count |-> count],
                        [k \in DOMAIN sessions |->
                            MineEmptyBlocksHandler(count, sessions[k][1],
                                                   sessions[k][2])])
    /\ SessionOpFrame

\* call_read_only_fn: invoke_contract_call under the test name
\* "readonly-calls", unwrapped: a failed call panics
CallReadOnlyFnHandler(ok, name, session) ==
    IF ok
    THEN [session |-> Executed(session, "readonly-calls", TRUE),
          returned |-> TRUE, result |-> "value"]
    ELSE [session |-> session, returned |-> FALSE, result |-> <<>>]

call_read_only_fn ==
    /\ MayCall
    /\ \E session_id \in IdsToTry, ok \in BOOLEAN :
          perform_block("call_read_only_fn", session_id, [ok |-> ok],
                        [k \in DOMAIN sessions |->
                            CallReadOnlyFnHandler(ok, sessions[k][1],
                                                  sessions[k][2])])
    /\ SessionOpFrame

\* get_assets_maps: reads the session
GetAssetsMapsHandler(name, session) ==
    [session |-> session, returned |-> TRUE, result |-> "assets"]

get_assets_maps ==
    /\ MayCall
    /\ \E session_id \in IdsToTry :
          perform_block("get_assets_maps", session_id, <<>>,
                        [k \in DOMAIN sessions |->
                            GetAssetsMapsHandler(sessions[k][1], sessions[k][2])])
    /\ SessionOpFrame

\* TransactionArgs: the sender, which of the three payloads is set ("none":
\* none of them), whether the session executes it, and a tag that stands
\* for the result the session gives it
TransactionArgs(kind, ok, tag) ==
    [sender |-> "wallet_1", kind |-> kind, ok |-> ok, tag |-> tag]

\* the transactions of the modelled mine_block calls: none; a contract call;
\* a failing contract call in front of a transfer; a deployment in front of
\* a contract call; a contract call in front of a failing deployment; and
\* a transaction with no payload
TransactionLists ==
    { <<>>,
      <<TransactionArgs("contract_call", TRUE, 1)>>,
      <<TransactionArgs("contract_call", FALSE, 1),
        TransactionArgs("transfer_stx", TRUE, 2)>>,
      <<TransactionArgs("deploy_contract", TRUE, 1),
        TransactionArgs("contract_call", TRUE, 2)>>,
      <<TransactionArgs("contract_call", TRUE, 1),
        TransactionArgs("deploy_contract", FALSE, 2)>>,
      <<TransactionArgs("none", TRUE, 1)>> }

\* Err(diagnostics) of invoke_contract_call: a message, then `continue`
FailedCall(st, tx) == st

\* the body of `for tx in args.transactions.iter()`: a contract call runs
\* under tx.sender inside invoke_contract_call; a deployment or a transfer
\* runs between set_tx_sender(tx.sender) and set_tx_sender(initial_tx_sender),
\* and its interpret(..).unwrap() panics on failure
MineBlockStep(name, tx, st) ==
    IF tx.kind = "contract_call"
    THEN IF tx.ok
         THEN [st EXCEPT !.session = Executed(@, name, TRUE),
                         !.receipts = Append(@, [result |-> tx.tag])]
         ELSE FailedCall(st, tx)
    ELSE LET as_sender == set_tx_sender(st.session, tx.sender)
         IN  IF tx.kind = "none"
             THEN [st EXCEPT !.session =
                                set_tx_sender(as_sender, st.initial_tx_sender)]
             ELSE IF tx.ok
             THEN [st EXCEPT !.session =
                                set_tx_sender(Executed(as_sender, name, FALSE),
                                              st.initial_tx_sender),
                             !.receipts = Append(@, [result |-> tx.tag])]
             ELSE [st EXCEPT !.session = as_sender, !.panicked = TRUE]

RECURSIVE MineBlockLoop(_, _, _)
MineBlockLoop(name, txs, st) ==
    IF st.panicked \/ txs = <<>> THEN st
    ELSE MineBlockLoop(name, Tail(txs), MineBlockStep(name, Head(txs), st))

\* session.advance_chain_tip(1) behind the loop
AdvanceByOne(session, txs) == advance_chain_tip(session, 1)

\* the closure mine_block hands to perform_block
MineBlockHandler(txs, name, session) ==
    LET done == MineBlockLoop(name, txs,
                              [session |-> session,
                               initial_tx_sender |-> session.tx_sender,
                               receipts |-> <<>>,
                               panicked |-> FALSE])
    IN  IF done.panicked
        THEN [session |-> done.session, returned |-> FALSE, result |-> <<>>]
        ELSE LET advanced == AdvanceByOne(done.session, txs)
             IN  [session |-> advanced, returned |-> TRUE,
                  result |-> [block_height |-> advanced.chain_tip,
                              receipts |-> done.receipts]]

mine_block ==
    /\ MayCall
    /\ \E session_id \in IdsToTry, txs \in TransactionLists :
          perform_block("mine_block", session_id, [transactions |-> txs],
                        [k \in DOMAIN sessions |->
                            MineBlockHandler(txs, sessions[k][1], sessions[k][2])])
    /\ SessionOpFrame

\* load_deployment on the default deployment: the session of the id
\* ("unable to retrieve session" panics when there is none) executes the
\* deployment's contracts
load_deployment ==
    /\ MayCall
    /\ \E session_id \in IdsToTry :
          IF session_id \notin DOMAIN sessions
          THEN /\ Panicked("load_deployment", session_id, <<>>)
               /\ UNCHANGED sessions
          ELSE /\ sessions' = [sessions EXCEPT ![session_id] =
                                  <<@[1], [@[2] EXCEPT !.contracts = TRUE]>>]
               /\ bridge_call' = OpCall("load_deployment", session_id, <<>>,
                                        TRUE, session_id)
               /\ bridge_calls' = bridge_calls + 1
               /\ UNCHANGED pc
    /\ SessionOpFrame

\* the tests are over: run_bridge receives what was sent, in the order it
\* was sent, and returns it
run_bridge ==
    /\ pc = "running"
    /\ pc' = "returned"
    /\ artifacts' = event_channel
    /\ event_channel' = <<>>
    /\ UNCHANGED <<session_counter, sessions, deployments, returned_ids,
                   terminations, bridge_call, bridge_calls>>
    /\ BridgeFrame

NextBridge ==
    \/ new_session
    \/ load_deployment
    \/ terminate_session
    \/ mine_block
    \/ mine_empty_blocks
    \/ call_read_only_fn
    \/ get_assets_maps
    \/ run_bridge

SpecBridge == InitBridge /\ [][NextBridge]_vars

----------------------------------------------------------------------------
(* What a returned call is expected to have produced, stated from its inputs *)

TransferKinds == {"stx_transfer_event", "nft_transfer_event", "ft_transfer_event"}

SingleKinds ==
    {"stx_mint_event", "stx_lock_event", "stx_burn_event", "nft_mint_event",
     "nft_burn_event", "ft_mint_event", "ft_burn_event"}

DataKinds ==
    {"data_var_set_event", "data_map_insert_event", "data_map_update_event",
     "data_map_delete_event", "contract_event"}

NativeKinds == {"stx_mint_event", "stx_lock_event", "stx_burn_event", "stx_transfer_event"}

FungibleKinds == {"ft_mint_event", "ft_burn_event", "ft_transfer_event"}

NonFungibleKinds == {"nft_mint_event", "nft_burn_event", "nft_transfer_event"}

IsTarget(e) == e.txid = txid

IsOther(e) == e.txid # txid

\* the events of the target transaction, in the order of the input vector
Consumed == SelectSeq(events_in, IsTarget)

\* the number of operations the table of section 4.4 gives an event kind
OpCount(kind) ==
    IF kind \in TransferKinds THEN 2 ELSE IF kind \in SingleKinds THEN 1 ELSE 0

\* the number of operations due to the first k consumed events
RECURSIVE OpsUpTo(_)
OpsUpTo(k) == IF k = 0 THEN 0 ELSE OpsUpTo(k - 1) + OpCount(Consumed[k].kind)

\* the operations account for the consumed events, kind by kind
OpsAccounted == Len(operations) = OpsUpTo(Len(Consumed))

AmountOf(op) == op.amount[1]

\* C1: every consumed stx / ft / nft transfer event yields exactly two
\* operations, a Debit on the sender at index i immediately followed by a
\* Credit on the recipient at index i + 1, each naming the other (and only
\* the other) in related_operations, with equal amount value and currency.
C1_TransferPairs ==
    pc = "done" =>
        /\ OpsAccounted
        /\ \A k \in 1..Len(Consumed) :
             Consumed[k].kind \in TransferKinds =>
                LET i == OpsUpTo(k - 1)
                    debit == operations[i + 1]
                    credit == operations[i + 2]
                    data == Consumed[k].data
                IN  /\ debit.type_ = "Debit"
                    /\ debit.account.address = data.sender
                    /\ credit.type_ = "Credit"
                    /\ credit.account.address = data.recipient
                    /\ debit.operation_identifier.index = i
                    /\ credit.operation_identifier.index = i + 1
                    /\ debit.related_operations
                         = Some(<<[index |-> i + 1, network_index |-> None]>>)
                    /\ credit.related_operations
                         = Some(<<[index |-> i, network_index |-> None]>>)
                    /\ AmountOf(debit).value = AmountOf(credit).value
                    /\ AmountOf(debit).currency = AmountOf(credit).currency

\* a returned call that consumed a native, a fungible and a non-fungible
\* transfer, the last two not at index 0
C1_Witness ==
    /\ pc = "done"
    /\ Len(Consumed) = 3
    /\ {Consumed[k].kind : k \in 1..3} = TransferKinds
    /\ Len(operations) = 6
    /\ operations[6].type_ = "Credit"

\* C2: the k-th operation a call returns (counted from 0) has index k, so the
\* indices are unique, strictly increasing and without gaps.
C2_IndicesSequential ==
    pc = "done" =>
        \A k \in 1..Len(operations) : operations[k].operation_identifier.index = k - 1

\* a returned call with operations from a single-operation event, a transfer
\* and a data event in between
C2_Witness ==
    /\ pc = "done"
    /\ Len(Consumed) = 3
    /\ Consumed[1].kind \in SingleKinds
    /\ Consumed[2].kind \in DataKinds
    /\ Consumed[3].kind \in TransferKinds
    /\ Len(operations) = 3

\* C3: after the call returns, the events vector holds exactly the events of
\* the other transactions, in their original relative order.
C3_ExactlyMatchingRemoved ==
    pc = "done" => events = SelectSeq(events_in, IsOther)

\* two adjacent matching events, the second in the last position, after an
\* event of another transaction that stays
C3_Witness ==
    /\ pc = "done"
    /\ Len(events_in) = 3
    /\ events_in[1].txid # txid
    /\ events_in[2].txid = txid
    /\ events_in[3].txid = txid
    /\ events = <<events_in[1]>>


\* the type and the account of the one operation of a mint, lock or burn event
SingleType(kind) ==
    IF kind \in {"stx_mint_event", "nft_mint_event", "ft_mint_event"} THEN "Credit"
    ELSE IF kind = "stx_lock_event" THEN "Lock" ELSE "Debit"

SingleAddress(kind, data) ==
    IF kind \in {"stx_mint_event", "nft_mint_event", "ft_mint_event"} THEN data.recipient
    ELSE IF kind = "stx_lock_event" THEN data.locked_address ELSE data.sender

\* the currency section 4.3 gives an event of the kind, read off the cache
\* as the call left it
ExpectedCurrency(kind, data) ==
    IF kind \in NativeKinds
    THEN [symbol |-> <<"S", "T", "X">>, decimals |-> 6, metadata |-> None]
    ELSE IF kind \in FungibleKinds
    THEN [symbol |-> asset_class_cache[data.asset_class_identifier].symbol,
          decimals |-> asset_class_cache[data.asset_class_identifier].decimals,
          metadata |-> Some([asset_class_identifier |-> data.asset_class_identifier,
                             asset_identifier |-> None,
                             standard |-> "Sip10"])]
    ELSE [symbol |-> data.asset_class_identifier,
          decimals |-> 0,
          metadata |-> Some([asset_class_identifier |-> data.asset_class_identifier,
                             asset_identifier |-> Some(data.hex_asset_identifier),
                             standard |-> "Sip09"])]

\* C4: every consumed mint, lock or burn event yields exactly one operation,
\* without related_operations: a Credit on the recipient for a mint, a Lock on
\* the locked address for a lock, a Debit on the sender for a burn, in the
\* native, the resolved fungible or the resolved non-fungible currency.
C4_SingleOperations ==
    pc = "done" =>
        /\ OpsAccounted
        /\ \A k \in 1..Len(Consumed) :
             Consumed[k].kind \in SingleKinds =>
                LET op == operations[OpsUpTo(k - 1) + 1]
                    kind == Consumed[k].kind
                    data == Consumed[k].data
                IN  /\ op.related_operations = None
                    /\ op.type_ = SingleType(kind)
                    /\ op.account.address = SingleAddress(kind, data)
                    /\ AmountOf(op).currency = ExpectedCurrency(kind, data)

\* a returned call that consumed a native lock, a fungible burn and a
\* non-fungible mint
C4_Witness ==
    /\ pc = "done"
    /\ Len(Consumed) = 3
    /\ {Consumed[k].kind : k \in 1..3}
         = {"stx_lock_event", "ft_burn_event", "nft_mint_event"}
    /\ Len(operations) = 3
    /\ \E k \in 1..3 : operations[k].type_ = "Lock"

\* the asset-class identifiers of the consumed fungible and non-fungible events
ConsumedAssets ==
    {Consumed[k].data.asset_class_identifier :
        k \in {j \in 1..Len(Consumed) :
                 Consumed[j].kind \in FungibleKinds \cup NonFungibleKinds}}

\* C5: a consumed data-var-set, data-map insert / update / delete or
\* contract-print event emits no operation and does not advance the operation
\* index (the operations are those of the other consumed events, numbered
\* without a gap), its contract identifier is in the receipt's
\* mutated-contracts set, and it adds nothing to the mutated-assets set.
C5_DataEvents ==
    pc = "done" =>
        /\ OpsAccounted
        /\ \A k \in 1..Len(Consumed) :
             /\ Consumed[k].kind \in DataKinds =>
                  Consumed[k].data.contract_identifier
                      \in receipt.mutated_contracts_radius
             /\ OpCount(Consumed[k].kind) > 0 =>
                  operations[OpsUpTo(k - 1) + 1].operation_identifier.index
                      = OpsUpTo(k - 1)
        /\ receipt.mutated_assets_radius = ConsumedAssets

\* a returned call that consumed only data events, of two contracts: no
\* operation, no asset, both contracts
C5_Witness ==
    /\ pc = "done"
    /\ Len(Consumed) = 3
    /\ \A k \in 1..3 : Consumed[k].kind \in DataKinds
    /\ operations = <<>>
    /\ receipt.mutated_assets_radius = {}
    /\ receipt.mutated_contracts_radius = {<<"c">>, <<"e">>}

\* the typed record of an event kind
VariantOf(kind) ==
    CASE kind = "stx_mint_event" -> "STXMintEvent"
      [] kind = "stx_lock_event" -> "STXLockEvent"
      [] kind = "stx_burn_event" -> "STXBurnEvent"
      [] kind = "stx_transfer_event" -> "STXTransferEvent"
      [] kind = "nft_mint_event" -> "NFTMintEvent"
      [] kind = "nft_burn_event" -> "NFTBurnEvent"
      [] kind = "nft_transfer_event" -> "NFTTransferEvent"
      [] kind = "ft_mint_event" -> "FTMintEvent"
      [] kind = "ft_burn_event" -> "FTBurnEvent"
      [] kind = "ft_transfer_event" -> "FTTransferEvent"
      [] kind = "data_var_set_event" -> "DataVarSetEvent"
      [] kind = "data_map_insert_event" -> "DataMapInsertEvent"
      [] kind = "data_map_update_event" -> "DataMapUpdateEvent"
      [] kind = "data_map_delete_event" -> "DataMapDeleteEvent"
      [] kind = "contract_event" -> "SmartContractEvent"

IsPopulated(e) == e.kind # "none"

\* the consumed events that have a populated kind, in input order
ConsumedPopulated == SelectSeq(Consumed, IsPopulated)

\* the part of an identifier before its first "::"
RECURSIVE BeforeSeparator(_)
BeforeSeparator(s) ==
    IF Len(s) = 0 THEN <<>>
    ELSE IF Len(s) >= 2 /\ s[1] = ":" /\ s[2] = ":" THEN <<>>
    ELSE <<Head(s)>> \o BeforeSeparator(Tail(s))

\* the contracts the consumed events touch
ConsumedContracts ==
    {BeforeSeparator(a) : a \in ConsumedAssets}
    \cup {Consumed[k].data.contract_identifier :
            k \in {j \in 1..Len(Consumed) : Consumed[j].kind \in DataKinds}}

\* C6: the receipt holds one typed record per consumed event with a populated
\* kind, in input order, and its mutated-contract and mutated-asset sets are
\* the union over the consumed events only.
C6_ReceiptFromConsumed ==
    pc = "done" =>
        /\ Len(receipt.events) = Len(ConsumedPopulated)
        /\ \A k \in 1..Len(ConsumedPopulated) :
             receipt.events[k] = [variant |-> VariantOf(ConsumedPopulated[k].kind),
                                  data |-> ConsumedPopulated[k].data]
        /\ receipt.mutated_assets_radius = ConsumedAssets
        /\ receipt.mutated_contracts_radius = ConsumedContracts

\* a returned call that consumed two events of different kinds around an
\* event of another transaction whose asset and contract stay out of the receipt
C6_Witness ==
    /\ pc = "done"
    /\ Len(events_in) = 3
    /\ events_in[1].txid = txid /\ events_in[1].kind = "contract_event"
    /\ events_in[2].txid # txid /\ events_in[2].kind = "ft_transfer_event"
    /\ events_in[3].txid = txid /\ events_in[3].kind = "nft_burn_event"
    /\ Len(receipt.events) = 2
    /\ receipt.events[1].variant = "SmartContractEvent"
    /\ receipt.events[2].variant = "NFTBurnEvent"
    /\ receipt.mutated_assets_radius = {<<"c", ":", ":", "a">>}
    /\ receipt.mutated_contracts_radius = {<<"c">>, <<"e">>}


\* the quantities of the PoX claim, read off the inputs of the call
PoxH == block.burn_block_height

PoxF == pox_info.first_burnchain_block_height

PoxP == pox_info.prepare_phase_block_length

PoxR == pox_info.reward_phase_block_length

\* the three PoX fields of the returned block hold the claimed values
PoxFieldsAsClaimed ==
    /\ block_data.metadata.pox_cycle_length = PoxP + PoxR
    /\ block_data.metadata.pox_cycle_index = (PoxH - PoxF) \div (PoxP + PoxR)
    /\ block_data.metadata.pox_cycle_position = (PoxH - PoxF) % (PoxP + PoxR)

\* C7 as stated: for all H >= F the call yields a block with pox_cycle_length
\* = P + R, pox_cycle_index = (H - F) / (P + R) and pox_cycle_position
\* = (H - F) mod (P + R), held in 32-bit fields.  Read here for a cycle of
\* positive length and a block above height 0 only.
C7_PoxAsStated ==
    pc \in {"done", "panicked"} /\ PoxH >= PoxF /\ PoxP + PoxR > 0
    /\ block.block_height > 0 =>
        /\ pc = "done"
        /\ PoxFieldsAsClaimed
        /\ block_data.metadata.pox_cycle_length \in U32
        /\ block_data.metadata.pox_cycle_index \in U32
        /\ block_data.metadata.pox_cycle_position \in U32

\* C7 amended: the claimed values hold for every returned block with H >= F
\* whose P + R fits 32 bits; and with H >= F the call returns no block
\* (it panics) when P + R = 0 or when (H - F) / (P + R) does not fit 32 bits.
C7_PoxWithinRange ==
    /\ pc = "done" /\ PoxH >= PoxF /\ PoxP + PoxR <= U32Max =>
          /\ PoxFieldsAsClaimed
          /\ block_data.metadata.pox_cycle_length \in U32
          /\ block_data.metadata.pox_cycle_index \in U32
          /\ block_data.metadata.pox_cycle_position \in U32
    /\ pc \in {"done", "panicked"} /\ PoxH >= PoxF /\ PoxP + PoxR <= U32Max
       /\ (PoxP + PoxR = 0 \/ (PoxH - PoxF) \div (PoxP + PoxR) > U32Max)
          => pc = "panicked"

\* a returned block in the third cycle, one block into it, of a chain whose
\* first burn block is not block 0
C7_Witness ==
    /\ pc = "done"
    /\ PoxF > 0
    /\ PoxH - PoxF = 7
    /\ PoxP = 1 /\ PoxR = 2
    /\ block_data.metadata.pox_cycle_index = 2
    /\ block_data.metadata.pox_cycle_position = 1
    /\ block_data.metadata.pox_cycle_length = 3

\* C8: every returned block has block_identifier = {index_block_hash,
\* block_height}, parent hash = parent_index_block_hash and
\* parent_block_identifier.index = block_identifier.index - 1, for every
\* block_height including 0.
C8_ParentIndex ==
    pc = "done" =>
        /\ block_data.block_identifier
             = [hash |-> block.index_block_hash, index |-> block.block_height]
        /\ block_data.parent_block_identifier.hash = block.parent_index_block_hash
        /\ block_data.parent_block_identifier.index
             = block_data.block_identifier.index - 1

\* the transactions of the modelled trail
TrailTxs == microblock_trail.transactions

\* the microblock sequences that occur in the trail
TrailSequences == {TrailTxs[n].microblock_sequence : n \in 1..Len(TrailTxs)}

\* the trail spans the sequences 0..k for some k
SpansFromZero == TrailTxs # <<>> /\ \E k \in MicroblockSequences : TrailSequences = 0..k

\* what tells two microblocks of a trail apart: hash, sequence and, above
\* sequence 0, the parent hash
GroupOf(tx) ==
    <<tx.microblock_hash, tx.microblock_sequence,
      IF tx.microblock_sequence = 0 THEN tx.microblock_hash
      ELSE tx.microblock_parent_hash>>

TrailGroups == {GroupOf(TrailTxs[n]) : n \in 1..Len(TrailTxs)}

GroupOfMicroblock(m) ==
    <<m.block_identifier.hash, m.block_identifier.index,
      m.parent_block_identifier.hash>>

\* the txids of the transactions of txs that are in kept, in payload order
RECURSIVE TxidsWhere(_, _)
TxidsWhere(txs, kept) ==
    IF txs = <<>> THEN <<>>
    ELSE (IF Head(txs) \in kept THEN <<Head(txs).txid>> ELSE <<>>)
         \o TxidsWhere(Tail(txs), kept)

TxidsOf(m) == [n \in 1..Len(m.transactions) |->
                 m.transactions[n].transaction_identifier.hash]

\* every sequence of the trail carries one hash and, above 0, one parent hash
OneMicroblockPerSequence ==
    \A a, b \in 1..Len(TrailTxs) :
        TrailTxs[a].microblock_sequence = TrailTxs[b].microblock_sequence
            => GroupOf(TrailTxs[a]) = GroupOf(TrailTxs[b])

AscendingByIdentifier ==
    \A a, b \in 1..Len(microblocks) :
        a < b => ~IdLess(microblocks[b].block_identifier,
                         microblocks[a].block_identifier)

ZeroIsOwnParent ==
    \A n \in 1..Len(microblocks) :
        microblocks[n].block_identifier.index = 0
            => microblocks[n].parent_block_identifier
                   = microblocks[n].block_identifier

\* C9 as the specification states it: a trail spanning the sequences 0..k
\* yields exactly k+1 microblocks, ascending by block identifier, the one of
\* sequence q holding the transactions of sequence q and no others, and the
\* microblock of sequence 0 its own parent.
C9_OnePerSequence ==
    (pc = "done" /\ SpansFromZero) =>
        /\ Len(microblocks) = Cardinality(TrailSequences)
        /\ AscendingByIdentifier
        /\ \A n \in 1..Len(microblocks) :
              LET HasSequence ==
                      {tx \in MicroblockTransactions :
                          tx.microblock_sequence = microblocks[n].block_identifier.index}
              IN  TxidsOf(microblocks[n]) = TxidsWhere(TrailTxs, HasSequence)
        /\ ZeroIsOwnParent

\* C9, amended: a returned trail yields one microblock per distinct (hash,
\* sequence, parent) of its transactions, ascending by block identifier, each
\* holding exactly the transactions of its own group (hence of its own
\* sequence only) in payload order, every microblock of sequence 0 its own
\* parent; when the trail spans 0..k and every sequence carries one hash and
\* one parent hash, that is exactly k+1 microblocks, one per sequence.
C9_OnePerGroup ==
    pc = "done" =>
        /\ Len(microblocks) = Cardinality(TrailGroups)
        /\ {GroupOfMicroblock(microblocks[n]) : n \in 1..Len(microblocks)} = TrailGroups
        /\ AscendingByIdentifier
        /\ \A n \in 1..Len(microblocks) :
              LET InGroup ==
                      {tx \in MicroblockTransactions :
                          GroupOf(tx) = GroupOfMicroblock(microblocks[n])}
              IN  TxidsOf(microblocks[n]) = TxidsWhere(TrailTxs, InGroup)
        /\ ZeroIsOwnParent
        /\ (SpansFromZero /\ OneMicroblockPerSequence =>
               /\ Len(microblocks) = Cardinality(TrailSequences)
               /\ \A n \in 1..Len(microblocks) :
                     microblocks[n].block_identifier.index = n - 1)

\* a returned trail of three transactions spanning the sequences 0..1, one
\* microblock per sequence, a transaction of sequence 0 carrying a parent hash
\* that is not its own hash
C9_Witness ==
    /\ pc = "done"
    /\ TrailSequences = 0..1
    /\ OneMicroblockPerSequence
    /\ Len(TrailTxs) = 3
    /\ Len(microblocks) = 2
    /\ \E n \in 1..Len(TrailTxs) :
          /\ TrailTxs[n].microblock_sequence = 0
          /\ TrailTxs[n].microblock_parent_hash # TrailTxs[n].microblock_hash



\* the string starts with the two characters "0x"
StartsWith0x(s) == Len(s) >= 2 /\ SubSeq(s, 1, 2) = <<"0", "x">>

\* C10: get_value_description always returns (no input makes it fail), and an
\* input that does not start with "0x" is returned unchanged.
C10_NoPrefixUnchanged ==
    /\ pc \in {"start", "done"}
    /\ pc = "start" => ENABLED CallValue
    /\ pc = "done" /\ ~StartsWith0x(raw_value) => value_description = raw_value

\* a returned call on an input of hex digits without the prefix, which would
\* decode to a value had the prefix been there
C10_Witness ==
    /\ pc = "done"
    /\ raw_value = <<"0", "3">>
    /\ value_description = <<"0", "3">>

\* the input carries the prefix and either its remainder is not hex or the
\* decoded bytes are no value: the two fallbacks behind the prefix check
FallsBackBehindPrefix(raw) ==
    /\ StartsWith0x(raw)
    /\ LET decoded == hex_bytes(SubSeq(raw, 3, Len(raw)))
       IN  ~decoded.ok \/ ~ClarityValueDisplay(decoded.bytes).ok

\* C11: for an input with the "0x" prefix whose remainder is not hex, or is hex
\* but deserializes to no value, get_value_description returns the string the
\* caller passed in, prefix included.
C11_FallbackReturnsInput ==
    pc = "done" /\ FallsBackBehindPrefix(raw_value) => value_description = raw_value

\* the three failures of get_tx_description: no "0x" marker, a remainder that
\* is not hex, bytes that are no transaction
TxMarkerAbsent == ~StartsWith0x(raw_tx)

TxHexFails == StartsWith0x(raw_tx) /\ ~hex_bytes(SubSeq(raw_tx, 3, Len(raw_tx))).ok

TxDeserializationFails ==
    /\ StartsWith0x(raw_tx)
    /\ LET decoded == hex_bytes(SubSeq(raw_tx, 3, Len(raw_tx)))
       IN  decoded.ok /\ ~DeserializeTransaction(decoded.bytes).ok

\* the fields of a full result
TxTupleFields == {"ok", "description", "kind", "fee", "sender", "sponsor"}

\* C12: get_tx_description returns an error carrying nothing else when the
\* marker is absent, the remainder is not hex or the bytes are no transaction,
\* and in every other case a full (description, kind, fee, sender, sponsor).
C12_ErrorOrFullTuple ==
    /\ pc = "start" => ENABLED CallTx
    /\ pc = "done" =>
          IF TxMarkerAbsent \/ TxHexFails \/ TxDeserializationFails
          THEN ~tx_description.ok /\ DOMAIN tx_description = {"ok"}
          ELSE /\ tx_description.ok
               /\ DOMAIN tx_description = TxTupleFields
               /\ tx_description.description # <<>>
               /\ tx_description.fee \in Nat
               /\ tx_description.sender # <<>>
               /\ Len(tx_description.sponsor) <= 1

\* a returned error for each of the three failures is reachable, and so is a
\* full result; this one is the sponsored contract call
C12_Witness ==
    /\ pc = "done"
    /\ raw_tx = <<"0", "x", "0", "3">>
    /\ tx_description.ok
    /\ tx_description.kind.variant = "ContractCall"
    /\ tx_description.fee = 2
    /\ tx_description.sponsor = Some(<<"ST", "k3">>)

\* the positions of the fungible and of the non-fungible calls so far
FungibleCalls == {n \in 1..Len(currency_calls) : currency_calls[n].fungible}

NonFungibleCalls == {n \in 1..Len(currency_calls) : ~currency_calls[n].fungible}

\* the call inserted an entry: it resolved the asset class's metadata
Resolved(call) == call.cache_after # call.cache_before

\* C13: two fungible resolutions of one asset-class id against the shared
\* cache return the same currency, of metadata {the id, no asset identifier,
\* fungible standard}; the id is resolved at most once: a call on a miss
\* inserts its entry, and a later call is a hit that leaves the cache as it is.
C13_FungibleIdempotent ==
    /\ \A n \in FungibleCalls :
          LET call == currency_calls[n]
          IN  /\ call.currency.metadata =
                     Some([asset_class_identifier |-> call.asset_class_id,
                           asset_identifier |-> None,
                           standard |-> "Sip10"])
              /\ call.asset_class_id \notin DOMAIN call.cache_before =>
                     /\ DOMAIN call.cache_after =
                            DOMAIN call.cache_before \cup {call.asset_class_id}
                     /\ \A k \in DOMAIN call.cache_before :
                            call.cache_after[k] = call.cache_before[k]
                     /\ call.currency.symbol = call.cache_after[call.asset_class_id].symbol
                     /\ call.currency.decimals
                            = call.cache_after[call.asset_class_id].decimals
              /\ call.asset_class_id \in DOMAIN call.cache_before => ~Resolved(call)
    /\ \A n, m \in FungibleCalls :
          n < m /\ currency_calls[n].asset_class_id = currency_calls[m].asset_class_id =>
              /\ currency_calls[m].currency = currency_calls[n].currency
              /\ ~Resolved(currency_calls[m])

\* the same asset class resolved twice with another class resolved in between:
\* the first call a miss, the last a hit
C13_Witness ==
    /\ Len(currency_calls) = 3
    /\ currency_calls[1].fungible /\ currency_calls[1].asset_class_id = AssetClassA
    /\ currency_calls[2].fungible /\ currency_calls[2].asset_class_id = AssetClassB
    /\ currency_calls[3].fungible /\ currency_calls[3].asset_class_id = AssetClassA
    /\ Resolved(currency_calls[1])
    /\ ~Resolved(currency_calls[3])
    /\ currency_calls[3].currency = currency_calls[1].currency
    /\ currency_calls[3].currency.symbol = Str_TOKEN

\* C15: a non-fungible resolution leaves the cache as it is and returns
\* decimals 0, the asset-class id as symbol and metadata {the asset-class id,
\* the asset instance id, non-fungible standard}; two calls with the same
\* arguments return equal currencies whatever the cache holds.
C15_NonFungibleFrame ==
    /\ \A n \in NonFungibleCalls :
          LET call == currency_calls[n]
          IN  /\ call.cache_after = call.cache_before
              /\ call.currency =
                     [symbol |-> call.asset_class_id,
                      decimals |-> 0,
                      metadata |-> Some([asset_class_identifier |-> call.asset_class_id,
                                         asset_identifier |-> call.asset_id,
                                         standard |-> "Sip09"])]
    /\ \A n, m \in NonFungibleCalls :
          /\ currency_calls[n].asset_class_id = currency_calls[m].asset_class_id
          /\ currency_calls[n].asset_id = currency_calls[m].asset_id
          => currency_calls[m].currency = currency_calls[n].currency
    /\ \A n \in 1..Len(currency_calls) :
          n > 1 => currency_calls[n].cache_before = currency_calls[n - 1].cache_after

\* the same asset resolved as non-fungible before and after its class entered
\* the cache through a fungible resolution
C15_Witness ==
    /\ Len(currency_calls) = 3
    /\ ~currency_calls[1].fungible /\ currency_calls[1].asset_class_id = AssetClassA
    /\ currency_calls[2].fungible /\ currency_calls[2].asset_class_id = AssetClassA
    /\ ~currency_calls[3].fungible /\ currency_calls[3].asset_class_id = AssetClassA
    /\ currency_calls[3].asset_id = currency_calls[1].asset_id
    /\ currency_calls[1].cache_before = EmptyCache
    /\ AssetClassA \in DOMAIN currency_calls[3].cache_before
    /\ currency_calls[3].currency = currency_calls[1].currency
    /\ currency_calls[3].currency.decimals = 0

\* how often the event occurs in the vector
Occurrences(e, evs) == Cardinality({n \in DOMAIN evs : evs[n] = e})

\* the asset-class ids of the fungible-token events the standardization
\* consumed: the events of its payload that it took out of the events vector
ConsumedFungibleIds(call) ==
    {call.events_in[n].data.asset_class_identifier :
        n \in {m \in DOMAIN call.events_in :
                  /\ call.events_in[m].kind \in FungibleKinds
                  /\ Occurrences(call.events_in[m], call.events_in)
                       > Occurrences(call.events_in[m], call.events_left)}}

\* C14: over the standardizations of blocks and microblock trails on one chain
\* context the cache only grows: each call keeps every entry it found, symbol
\* and decimals as they were, each call starts from the cache the one before
\* left, and the keys a call adds are asset-class ids of fungible-token mint,
\* burn or transfer events it consumed.
C14_CacheOnlyGrows ==
    /\ \A n \in DOMAIN standardizations :
          LET call == standardizations[n]
          IN  /\ \A k \in DOMAIN call.cache_before :
                    /\ k \in DOMAIN call.cache_after
                    /\ call.cache_after[k] = call.cache_before[k]
              /\ DOMAIN call.cache_after \ DOMAIN call.cache_before
                    \subseteq ConsumedFungibleIds(call)
              /\ call.cache_before =
                    IF n = 1 THEN EmptyCache ELSE standardizations[n - 1].cache_after
    /\ standardizations # <<>> =>
          asset_class_cache = standardizations[Len(standardizations)].cache_after

\* a block that consumes a fungible event of one class and leaves another
\* transaction's fungible event of a second class alone, then a trail that
\* consumes that second class: the cache grows from one entry to two
C14_Witness ==
    /\ Len(standardizations) = 2
    /\ standardizations[1].kind = "block"
    /\ standardizations[1].events_in = <<FtMintA, FtTransferB>>
    /\ standardizations[1].events_left = <<FtTransferB>>
    /\ DOMAIN standardizations[1].cache_after = {AssetClassA}
    /\ standardizations[2].kind = "trail"
    /\ ~standardizations[2].panicked
    /\ DOMAIN asset_class_cache = {AssetClassA, AssetClassB}
    /\ asset_class_cache[AssetClassA] = standardizations[1].cache_after[AssetClassA]

\* the parent identifier of a block of the modelled runs
ParentOfId(id) ==
    (CHOOSE b \in PoolBlocks : b.block_identifier = id).parent_block_identifier

\* the block's ancestors lead to the genesis block through blocks that exist
RECURSIVE ReachesGenesis(_)
ReachesGenesis(id) ==
    \/ id = GenesisId
    \/ /\ \E b \in PoolBlocks : b.block_identifier = id
       /\ ReachesGenesis(ParentOfId(id))

EmittedIds == {emitted[n] : n \in DOMAIN emitted}

\* C16: whatever the order of the insertions, a block is emitted only after its
\* parent (the genesis block counts as emitted), the confirmed chain links each
\* block to the one before, and a block with an ancestor that never arrives is
\* never emitted.
C16_AncestorsFirst ==
    /\ \A n \in DOMAIN emitted :
          \/ ParentOfId(emitted[n]) = GenesisId
          \/ \E m \in 1..(n - 1) : emitted[m] = ParentOfId(emitted[n])
    /\ \A n \in 2..Len(chain) : ParentOfId(chain[n]) = chain[n - 1]
    /\ \A id \in EmittedIds : ReachesGenesis(id)

\* blocks 2 and 6 inserted before block 1: 2 is emitted after 1, and 6, whose
\* parent never arrives, stays pending
C16_Witness ==
    /\ emitted = <<1, 2>>
    /\ last_op.op = "confirm"
    /\ last_op.pending = {PoolBlock(2, 1), PoolBlock(6, 5)}
    /\ pending = {PoolBlock(6, 5)}

\* the last operation inserted a block, not known before, on the accepted tip
InsertedOnTip ==
    /\ last_op.op = "insert"
    /\ last_op.block.block_identifier \notin last_op.confirmed \cup last_op.orphaned
    /\ Extends(last_op.block, last_op.tip)

\* the inserted block is confirmed, is the new tip and was emitted last
InsertedIsNewTip ==
    /\ last_op.block.block_identifier \in ConfirmedIds
    /\ Tip = last_op.block.block_identifier
    /\ emitted # <<>>
    /\ emitted[Len(emitted)] = last_op.block.block_identifier
    /\ emitted = Append(last_op.emitted, last_op.block.block_identifier)

C18_ResubmissionNoOp ==
    /\ last_op.op = "insert"
       /\ last_op.block.block_identifier \in last_op.confirmed =>
          /\ Tip = last_op.tip
          /\ pending = last_op.pending
          /\ emitted = last_op.emitted
          /\ ConfirmedIds = last_op.confirmed
    /\ \A id \in EmittedIds : Occurrences(id, emitted) = 1

\* block 1 inserted again while 2 is the accepted tip and 4 is pending
C18_Witness ==
    /\ last_op.op = "insert"
    /\ last_op.block = PoolBlock(1, GenesisId)
    /\ last_op.confirmed = {GenesisId, 1, 2}
    /\ Tip = 2
    /\ pending = {PoolBlock(4, 3)}
    /\ emitted = <<1, 2>>

\* C19: the block returned by standardize_stacks_block has no confirmed
\* microblock identifier exactly when the raw parent_microblock is the all-zero
\* sentinel; otherwise the identifier is {hash: parent_microblock,
\* index: parent_microblock_sequence}.
C19_ConfirmMicroblockIdentifier ==
    pc = "done" =>
        /\ block_data.metadata.confirm_microblock_identifier = None
              <=> block.parent_microblock = ZeroHash
        /\ block.parent_microblock # ZeroHash =>
              block_data.metadata.confirm_microblock_identifier =
                  Some([hash |-> block.parent_microblock,
                        index |-> block.parent_microblock_sequence])

\* a block that confirms the microblock 7 of sequence 2
C19_Witness ==
    /\ pc = "done"
    /\ block.parent_microblock = 7
    /\ block_data.metadata.confirm_microblock_identifier = Some([hash |-> 7, index |-> 2])

\* an event of the target transaction with no payload field populated
IsUnpopulated(e) == e.txid = txid /\ e.kind = "none"

HasPayloadOrOther(e) == ~IsUnpopulated(e)

IsPopulatedMatch(e) == e.txid = txid /\ e.kind # "none"

\* C20: an event of the target transaction with no payload field populated is
\* removed from the events vector and adds nothing: the operations, the
\* receipt, the cache and the events left are those of the same call on the
\* input without such events, and the receipt holds one record per matching
\* event with a payload.
C20_UnpopulatedContributesNothing ==
    pc = "done" =>
        /\ \A n \in DOMAIN events : ~IsUnpopulated(events[n])
        /\ \E r \in {get_standardized_stacks_operations(
                         txid, SelectSeq(events_in, HasPayloadOrOther), EmptyCache)} :
              /\ operations = r.operations
              /\ receipt = r.receipt
              /\ events = r.events
              /\ asset_class_cache = r.asset_class_cache
        /\ Len(receipt.events) = Len(SelectSeq(events_in, IsPopulatedMatch))

\* an event without payload between a mint and a transfer of the target
\* transaction: three operations, two receipt records, nothing left
C20_Witness ==
    /\ pc = "done"
    /\ Len(events_in) = 3
    /\ events_in[1].txid = txid /\ events_in[1].kind = "stx_mint_event"
    /\ IsUnpopulated(events_in[2])
    /\ events_in[3].txid = txid /\ events_in[3].kind = "stx_transfer_event"
    /\ Len(operations) = 3
    /\ Len(receipt.events) = 2
    /\ events = <<>>

\* the consumed event is a mint, burn or transfer of a fungible or
\* non-fungible asset
IsAssetEvent(e) == e.kind \in FungibleKinds \cup NonFungibleKinds

\* C21: for every consumed mint, burn or transfer event of a fungible or
\* non-fungible asset the receipt's mutated-assets set holds the event's
\* asset-class identifier and the mutated-contracts set holds the part of it
\* before the first "::"; the two sets hold nothing else on account of asset
\* or native-token events, so a call that consumed native-token events only
\* leaves both empty.
C21_MutatedIdsSplit ==
    pc = "done" =>
        /\ \A k \in 1..Len(Consumed) :
              IsAssetEvent(Consumed[k]) =>
                 /\ Consumed[k].data.asset_class_identifier
                       \in receipt.mutated_assets_radius
                 /\ BeforeSeparator(Consumed[k].data.asset_class_identifier)
                       \in receipt.mutated_contracts_radius
        /\ \A a \in receipt.mutated_assets_radius :
              \E k \in 1..Len(Consumed) :
                 /\ IsAssetEvent(Consumed[k])
                 /\ Consumed[k].data.asset_class_identifier = a
        /\ \A c \in receipt.mutated_contracts_radius :
              \E k \in 1..Len(Consumed) :
                 \/ /\ IsAssetEvent(Consumed[k])
                    /\ BeforeSeparator(Consumed[k].data.asset_class_identifier) = c
                 \/ /\ Consumed[k].kind \in DataKinds
                    /\ Consumed[k].data.contract_identifier = c
        /\ (\A k \in 1..Len(Consumed) : Consumed[k].kind \in NativeKinds) =>
              /\ receipt.mutated_assets_radius = {}
              /\ receipt.mutated_contracts_radius = {}

\* a native transfer, a non-fungible mint of c::a and a fungible transfer of
\* d::b::x, whose contract is the part before its first separator
C21_Witness ==
    /\ pc = "done"
    /\ Len(Consumed) = 3
    /\ Consumed[1].kind = "stx_transfer_event"
    /\ Consumed[2].kind = "nft_mint_event"
    /\ Consumed[3].kind = "ft_transfer_event"
    /\ receipt.mutated_assets_radius = {AssetClassA, AssetClassB}
    /\ receipt.mutated_contracts_radius = {<<"c">>, <<"d">>}

\* the transactions of the microblocks, microblock after microblock
RECURSIVE MicroblockTransactionsOf(_)
MicroblockTransactionsOf(ms) ==
    IF ms = <<>> THEN <<>>
    ELSE Head(ms).transactions \o MicroblockTransactionsOf(Tail(ms))

\* the transactions the batch call returned
BatchOutput ==
    IF pc = "block_done" THEN block_data.transactions
    ELSE MicroblockTransactionsOf(microblocks)

BatchReturned == pc \in {"block_done", "trail_done"}

\* the txids of the batch's transactions
BatchTxids == {block.transactions[n].txid : n \in DOMAIN block.transactions}

\* the receipt records and the number of operations due to the batch's events
\* of the transaction t, in the order of the events list
RECURSIVE RecordsOf(_, _)
RecordsOf(t, evs) ==
    IF evs = <<>> THEN <<>>
    ELSE IF Head(evs).txid = t
    THEN <<[variant |-> VariantOf(Head(evs).kind), data |-> Head(evs).data]>>
             \o RecordsOf(t, Tail(evs))
    ELSE RecordsOf(t, Tail(evs))

RECURSIVE OperationsDue(_, _)
OperationsDue(t, evs) ==
    IF evs = <<>> THEN 0
    ELSE (IF Head(evs).txid = t THEN OpCount(Head(evs).kind) ELSE 0)
             + OperationsDue(t, Tail(evs))

RECURSIVE SumOver(_, _)
SumOver(f, dom) ==
    IF dom = {} THEN 0
    ELSE LET n == CHOOSE m \in dom : TRUE IN f[n] + SumOver(f, dom \ {n})

\* C22: in a returned block or trail the output transactions are those of the
\* payload, in payload order; the first transaction of a txid holds the
\* records and operations of all events of that txid, a later transaction of
\* the same txid holds none, so the receipt records add up to the events whose
\* txid belongs to a transaction, and the events of other txids are in no
\* transaction and stay in the events list.
C22_EventsAttributedOnce ==
    BatchReturned =>
        /\ Len(BatchOutput) = Len(block.transactions)
        /\ \A n \in DOMAIN BatchOutput :
              LET t == block.transactions[n].txid
                  first == \A m \in 1..(n - 1) : block.transactions[m].txid # t
                  out == BatchOutput[n]
              IN  /\ out.transaction_identifier.hash = t
                  /\ first =>
                        /\ out.metadata.receipt.events = RecordsOf(t, block.events)
                        /\ Len(out.operations) = OperationsDue(t, block.events)
                  /\ ~first =>
                        /\ out.metadata.receipt.events = <<>>
                        /\ out.operations = <<>>
        /\ SumOver([n \in DOMAIN BatchOutput |->
                       Len(BatchOutput[n].metadata.receipt.events)],
                   DOMAIN BatchOutput)
              = Cardinality({k \in DOMAIN block.events :
                                block.events[k].txid \in BatchTxids})
        /\ events = SelectSeq(block.events, LAMBDA e : e.txid \notin BatchTxids)

\* a block of two transactions tx1 and one tx2, with a transfer of tx1 and a
\* burn of tx3: the first tx1 has the transfer, the second has nothing, and
\* the burn is left over
C22_Witness ==
    /\ pc = "block_done"
    /\ Len(block.transactions) = 3
    /\ block.transactions[1].txid = "tx1"
    /\ block.transactions[2].txid = "tx2"
    /\ block.transactions[3].txid = "tx1"
    /\ block.events = <<BurnOfTx3, TransferOfTx1>>
    /\ Len(block_data.transactions[1].operations) = 2
    /\ block_data.transactions[2].operations = <<>>
    /\ block_data.transactions[3].operations = <<>>
    /\ events = <<BurnOfTx3>>

\* the positions of the batch's transactions whose raw_tx does not decode
Undecodable ==
    {n \in DOMAIN block.transactions :
        ~get_tx_description(block.transactions[n].raw_tx).ok}

\* C23: when a transaction of the block or of the trail does not decode, at
\* whatever position, the call does not return: there is no block and no
\* microblock; and every transaction of a returned block or trail is one whose
\* raw_tx decoded, so none stands in for an undecodable one.
C23_DecodeFailureAborts ==
    /\ pc # "start" /\ Undecodable # {} =>
          /\ pc \in {"block_panicked", "trail_panicked"}
          /\ block_data = <<>>
          /\ microblocks = <<>>
    /\ BatchReturned =>
          /\ Undecodable = {}
          /\ \A n \in DOMAIN BatchOutput :
                get_tx_description(BatchOutput[n].metadata.raw_tx).ok

\* a trail whose third transaction does not decode, after two that did and
\* that took their events: no microblock comes back
C23_Witness ==
    /\ pc = "trail_panicked"
    /\ Undecodable = {3}
    /\ microblock_trail.events = <<TransferOfTx1, MintOfTx2>>
    /\ events = <<>>
    /\ microblocks = <<>>

\* the parent identifier the claim gives the microblock of a transaction
ClaimedParent(tx) ==
    IF tx.microblock_sequence > 0
    THEN [hash |-> tx.microblock_parent_hash, index |-> tx.microblock_sequence - 1]
    ELSE [hash |-> tx.microblock_hash, index |-> tx.microblock_sequence]

\* the microblock holds the transaction at one of its positions
HoldsTransaction(m, tx) ==
    \E k \in DOMAIN m.transactions :
        /\ m.transactions[k].transaction_identifier.hash = tx.txid
        /\ m.transactions[k].metadata.position.microblock = m.block_identifier

\* C24: every transaction of a returned trail sits in a microblock of its own
\* hash and sequence s whose parent identifier is
\* {hash: microblock_parent_hash, index: s - 1} when s > 0 and the microblock's
\* own identifier when s = 0, and no microblock has another parent than the
\* ones its transactions give it; every microblock carries the anchor
\* {hash: parent_index_block_hash, index: 0}.
C24_ParentAndAnchor ==
    pc = "done" =>
        /\ \A n \in DOMAIN TrailTxs :
              \E k \in DOMAIN microblocks :
                 /\ microblocks[k].block_identifier
                       = [hash |-> TrailTxs[n].microblock_hash,
                          index |-> TrailTxs[n].microblock_sequence]
                 /\ microblocks[k].parent_block_identifier = ClaimedParent(TrailTxs[n])
                 /\ HoldsTransaction(microblocks[k], TrailTxs[n])
        /\ \A k \in DOMAIN microblocks :
              /\ \E n \in DOMAIN TrailTxs :
                    /\ microblocks[k].parent_block_identifier = ClaimedParent(TrailTxs[n])
                    /\ HoldsTransaction(microblocks[k], TrailTxs[n])
              /\ microblocks[k].metadata.anchor_block_identifier
                    = [hash |-> microblock_trail.parent_index_block_hash, index |-> 0]

\* a returned trail with a transaction at sequence 2 whose parent hash 32 is
\* not its own hash 31, in a microblock with the parent (32, 1), and a
\* transaction at sequence 0 with another parent hash, in a microblock that
\* is its own parent
C24_Witness ==
    /\ pc = "done"
    /\ Len(TrailTxs) = 2
    /\ TrailTxs[1].microblock_sequence = 2
    /\ TrailTxs[1].microblock_parent_hash = 32
    /\ TrailTxs[2].microblock_sequence = 0
    /\ TrailTxs[2].microblock_hash = 32
    /\ TrailTxs[2].microblock_parent_hash = 31
    /\ Len(microblocks) = 2
    /\ microblocks[1].parent_block_identifier = [hash |-> 32, index |-> 0]
    /\ microblocks[2].parent_block_identifier = [hash |-> 32, index |-> 1]
    /\ microblocks[2].metadata.anchor_block_identifier = [hash |-> 10, index |-> 0]

\* the events vector with every committed flag set
AllCommitted(evs) == [n \in DOMAIN evs |-> [evs[n] EXCEPT !.committed = TRUE]]

\* C25: every operation of a returned call has the status Success, for every
\* event kind, and the operations and the receipt are those of the same call
\* on the events with every committed flag set: an event that is not
\* committed is removed and classified like a committed one.
C25_AlwaysSuccess ==
    pc = "done" =>
        /\ \A n \in DOMAIN operations : operations[n].status = Some("Success")
        /\ OpsAccounted
        /\ events = <<>>
        /\ \E r \in {get_standardized_stacks_operations(
                         txid, AllCommitted(events_in), EmptyCache)} :
              /\ operations = r.operations
              /\ receipt = r.receipt
              /\ asset_class_cache = r.asset_class_cache

\* an uncommitted fungible transfer before a committed native mint: three
\* operations, two receipt records
C25_Witness ==
    /\ pc = "done"
    /\ Len(events_in) = 2
    /\ events_in[1].kind = "ft_transfer_event" /\ ~events_in[1].committed
    /\ events_in[2].kind = "stx_mint_event" /\ events_in[2].committed
    /\ Len(operations) = 3
    /\ operations[1].status = Some("Success")
    /\ Len(receipt.events) = 2

\* C26: the operations follow the order of the events in the list, whatever
\* their event_index: the operations of the k-th consumed event take the
\* indices right behind those of the events before it and are those of its
\* kind, so every operation of an earlier event has a smaller index than every
\* operation of a later one.
C26_ListOrder ==
    pc = "done" =>
        /\ OpsAccounted
        /\ \A n \in DOMAIN operations : operations[n].operation_identifier.index = n - 1
        /\ \A k \in 1..Len(Consumed) :
              LET kind == Consumed[k].kind
                  data == Consumed[k].data
                  at == OpsUpTo(k - 1)
              IN  /\ kind \in SingleKinds =>
                        /\ operations[at + 1].type_ = SingleType(kind)
                        /\ operations[at + 1].account.address = SingleAddress(kind, data)
                        /\ AmountOf(operations[at + 1]).currency
                              = ExpectedCurrency(kind, data)
                  /\ kind \in TransferKinds =>
                        /\ operations[at + 1].type_ = "Debit"
                        /\ operations[at + 1].account.address = data.sender
                        /\ operations[at + 2].type_ = "Credit"
                        /\ operations[at + 2].account.address = data.recipient
                        /\ AmountOf(operations[at + 1]).currency
                              = ExpectedCurrency(kind, data)
                        /\ AmountOf(operations[at + 2]).currency
                              = ExpectedCurrency(kind, data)

\* a native lock with event_index 1 in front of a non-fungible transfer with
\* event_index 0: the lock is operation 0, the transfer operations 1 and 2
C26_Witness ==
    /\ pc = "done"
    /\ Len(events_in) = 2
    /\ events_in[1].kind = "stx_lock_event" /\ events_in[1].event_index = 1
    /\ events_in[2].kind = "nft_transfer_event" /\ events_in[2].event_index = 0
    /\ Len(operations) = 3
    /\ operations[1].type_ = "Lock"
    /\ operations[1].operation_identifier.index = 0
    /\ operations[2].type_ = "Debit"
    /\ operations[3].operation_identifier.index = 2

\* the ids of the sessions terminated so far
TerminatedIds == {terminations[n].session_id : n \in DOMAIN terminations}

SessionOps ==
    {"mine_block", "mine_empty_blocks", "call_read_only_fn", "get_assets_maps"}

\* the artifacts sent so far: those in the channel, or those run_bridge
\* drained from it when it returned
Sent == IF pc = "returned" THEN artifacts ELSE event_channel

\* the artifacts of the sessions terminated so far, in termination order
ArtifactsDue ==
    [n \in DOMAIN terminations |-> SessionArtifacts(terminations[n].session)]

\* C28: terminate_session on a registered id removes that session and no
\* other and sends one SessionTerminated with that session's coverage and
\* costs reports; what was sent, and what run_bridge returns, is one artifact
\* per terminated session in termination order; an op on the session of an
\* id terminated before, or a second terminate_session on it, panics and
\* leaves the registered sessions and the channel as they were.
C28_TerminateSession ==
    /\ bridge_call.op = "terminate_session" /\ bridge_call.returned =>
          LET id == bridge_call.session_id
              before == bridge_call.before.sessions
          IN  /\ id \in DOMAIN before
              /\ DOMAIN sessions = (DOMAIN before) \ {id}
              /\ \A k \in DOMAIN sessions : sessions[k] = before[k]
              /\ Len(Sent) = bridge_call.before.sent + 1
              /\ Sent[Len(Sent)] = SessionArtifacts(before[id][2])
    /\ pc = "returned" => artifacts = ArtifactsDue /\ event_channel = <<>>
    /\ pc # "returned" => event_channel = ArtifactsDue /\ artifacts = <<>>
    /\ (/\ bridge_call.op \in SessionOps \cup {"terminate_session"}
        /\ bridge_call.session_id \in TerminatedIds
        /\ bridge_call.session_id \notin DOMAIN bridge_call.before.sessions) =>
          /\ ~bridge_call.returned
          /\ pc = "panicked"
          /\ sessions = bridge_call.before.sessions
          /\ Len(event_channel) = bridge_call.before.sent

\* the session 1 ran a contract call and was terminated, its reports were
\* sent; a mine_block on the id 1 then panicked and left the session 2 alone
C28_Witness ==
    /\ bridge_call.op = "mine_block"
    /\ bridge_call.session_id = 1
    /\ ~bridge_call.returned
    /\ TerminatedIds = {1}
    /\ DOMAIN sessions = {2}
    /\ event_channel = <<[coverage_reports |-> <<>>, costs_reports |-> <<>>]>>
    /\ pc = "panicked"

\* the session the call named, as the call left it and as it found it
SessionAfter == sessions[bridge_call.session_id][2]

SessionBefore == bridge_call.before.sessions[bridge_call.session_id][2]

\* the receipts are those of some of the transactions, in transaction
\* order, none of them of a contract call that failed
ReceiptsInOrder(txs, receipts) ==
    /\ Len(receipts) <= Len(txs)
    /\ \A n \in DOMAIN receipts :
          \E k \in DOMAIN txs :
              /\ txs[k].tag = receipts[n].result
              /\ ~(txs[k].kind = "contract_call" /\ ~txs[k].ok)
    /\ \A n, m \in DOMAIN receipts :
          n < m => receipts[n].result < receipts[m].result

\* what C29 says of a mine_block call that came back
MinedOneBlock ==
    /\ SessionAfter.chain_tip = SessionBefore.chain_tip + 1
    /\ bridge_call.result.block_height = SessionAfter.chain_tip
    /\ SessionAfter.tx_sender = SessionBefore.tx_sender
    /\ ReceiptsInOrder(bridge_call.args.transactions, bridge_call.result.receipts)

\* C29: every mine_block call on a registered session, whatever its
\* transactions and whether or not they succeed, comes back with the chain
\* tip one block further and the tx sender it found, and with receipts of
\* at most its transactions, in transaction order, none for a failed
\* contract call.
C29_TipAdvancesByOne ==
    (/\ bridge_call.op = "mine_block"
     /\ bridge_call.session_id \in DOMAIN bridge_call.before.sessions) =>
        /\ bridge_call.returned
        /\ MinedOneBlock

\* the ops that run a session through perform_block and may change it
SessionWriters == {"mine_block", "mine_empty_blocks", "call_read_only_fn"}

\* the cache session new_session clones for a load_deployment flag
CacheSession(cache, with_contracts) ==
    IF with_contracts THEN cache.session ELSE cache.session_accounts_only

\* C30: a mine_block, mine_empty_blocks or call_read_only_fn call, returned
\* or panicked, leaves every other registered session and the set of
\* registered ids as they were; no op sequence changes the deployment
\* cache; and a new_session call, whatever ran on other sessions before,
\* registers a session equal to the cache's session for its
\* load_deployment flag.
C30_SessionsIsolated ==
    /\ deployments = DefaultCache
    /\ bridge_call.op \in SessionWriters =>
          /\ DOMAIN sessions = DOMAIN bridge_call.before.sessions
          /\ \A k \in (DOMAIN sessions) \ {bridge_call.session_id} :
                sessions[k] = bridge_call.before.sessions[k]
          /\ deployments = bridge_call.before.deployments
    /\ bridge_call.op = "new_session" =>
          /\ SessionAfter = CacheSession(DefaultCache,
                                         bridge_call.args.load_deployment)
          /\ sessions[bridge_call.session_id][1] = bridge_call.args.name

\* a session was created and changed by two calls, another session was then
\* created with the same flag: it is the cache's session, not the changed one
C30_Witness ==
    /\ bridge_call.op = "new_session"
    /\ bridge_call.session_id = 2
    /\ 1 \in DOMAIN sessions
    /\ sessions[1][2] # sessions[2][2]
    /\ sessions[1][2].chain_tip > sessions[2][2].chain_tip
    /\ sessions[1][2].coverage_reports # <<>>
    /\ sessions[2][2] = CacheSession(deployments, TRUE)
    /\ pc = "running"

=============================================================================
